---------------------------- MODULE Spec2Model ----------------------------
(***************************************************************************)
(* A model of uspto-tools: the chunkers and parsers of uspto_tools/parse,  *)
(* the archive dispatcher of uspto_tools/fetch/bulk_data.py and the text   *)
(* form and the store of scripts/.                                         *)
(*                                                                         *)
(* Python strings are modelled as sequences of one-character strings, so   *)
(* that slicing, stripping, prefix tests and comparisons are computed and  *)
(* not assumed.  Python's 0-based indices are kept 1-based here; every     *)
(* slice a[i:j] of the source is SubSeq(a, i+1, j).                         *)
(*                                                                         *)
(* Each function of the source has its own group of variables and its own  *)
(* specification (SpecChunk, SpecNs, ...); a specification leaves the      *)
(* variables of the other groups at their idle values.                     *)
(***************************************************************************)
EXTENDS Integers, Sequences, FiniteSets, TLC

VARIABLES
    \* chunk_aps_file (parse/aps.py)
    aps, all_contents, indices, chunks, chunk_pc,
    \* parse_aps_into_namespaces (parse/aps.py)
    lines, line_i, name_spaces, current_namespace, previous_tag, ns_pc,
    \* _get_aps_claims (parse/aps.py)
    namespace, start_i, claims, claims_pc,
    \* parse_xml_chunk (parse/xml.py)
    soup, version, references, inventor_tags, parsed, patent, xml_pc,
    \* get_patents_from_zip (fetch/bulk_data.py)
    unzipped, member_i, splitter, pending, patents, n_failures, zip_pc,
    \* chunk_sgml_file (parse/sgml.py) and chunk_xml_file (parse/xml.py)
    doc_file, doc_lines, doc_i, doc_start_i, yielded, tag_pc,
    \* parse_sgml_chunk (parse/sgml.py)
    sgml_soup, sgml_parsed, sgml_patent, sgml_pc,
    \* the constructors of the record types (parse/patent.py)
    ctor, constructed, ctor_pc,
    \* format_patent_as_lines (scripts/bulk_download.py), load_patents and parse_patent (scripts/zip_to_sqlite.py)
    content_patents, out_lines, archive_text, patents_raw, parsed_patents, text_pc,
    \* _parse_patent_number (scripts/zip_to_sqlite.py)
    raw_p_num, field_type, p_num, number_pc,
    \* _safe_date (scripts/zip_to_sqlite.py)
    date_arg, date_str, date, date_pc,
    \* the ingestion into the store (scripts/zip_to_sqlite.py)
    archive_files, to_skip, file_i, file_patents, values, fulltexts, citing, transaction, database, store_pc,
    \* the fetch operations (fetch/patft.py)
    operation, page, fetch_soup, fetched, fetch_pc,
    \* parse_aps_chunk (parse/aps.py)
    aps_chunk, aps_namespaces, aps_ns_i, aps_values, aps_patent, aps_pc,
    \* scripts/bulk_download.py: the bulk download run
    n_jobs, zip_links, pool, pool_tasks, queue, jobs, main_pc, listener_pc, received,
    \* fetch/proxy.py: ProxySession.get
    get_url, proxies, attempts, refreshes, get_response, get_pc

chunkVars  == <<aps, all_contents, indices, chunks, chunk_pc>>
nsVars     == <<lines, line_i, name_spaces, current_namespace, previous_tag, ns_pc>>
claimsVars == <<namespace, start_i, claims, claims_pc>>
xmlVars    == <<soup, version, references, inventor_tags, parsed, patent, xml_pc>>
zipVars    == <<unzipped, member_i, splitter, pending, patents, n_failures, zip_pc>>
tagVars    == <<doc_file, doc_lines, doc_i, doc_start_i, yielded, tag_pc>>
sgmlVars == <<sgml_soup, sgml_parsed, sgml_patent, sgml_pc>>
ctorVars == <<ctor, constructed, ctor_pc>>
textVars == <<content_patents, out_lines, archive_text, patents_raw, parsed_patents, text_pc>>
numberVars == <<raw_p_num, field_type, p_num, number_pc>>
dateVars == <<date_arg, date_str, date, date_pc>>
storeVars == <<archive_files, to_skip, file_i, file_patents, values, fulltexts, citing, transaction, database, store_pc>>
fetchVars == <<operation, page, fetch_soup, fetched, fetch_pc>>
apsVars == <<aps_chunk, aps_namespaces, aps_ns_i, aps_values, aps_patent, aps_pc>>
downloadVars == <<n_jobs, zip_links, pool, pool_tasks, queue, jobs, main_pc, listener_pc, received>>
proxyVars == <<get_url, proxies, attempts, refreshes, get_response, get_pc>>
\* The groups of the parsers and of the dispatcher, and the groups that follow.
earlierVars == <<chunkVars, nsVars, claimsVars, xmlVars, zipVars>>
laterVars  == <<tagVars, sgmlVars, ctorVars, textVars, numberVars, dateVars, storeVars, fetchVars, apsVars, downloadVars, proxyVars>>
vars       == <<earlierVars, laterVars>>

\* The value of a Python name that holds None.  References are paths into the
\* structure they point into, so the reference that points nowhere is empty.
None == <<>>

ChunkIdle ==
    /\ aps = [form |-> "idle", lines |-> <<>>] /\ all_contents = <<>> /\ indices = <<>>
    /\ chunks = <<>> /\ chunk_pc = "idle"
NsIdle ==
    /\ lines = <<>> /\ line_i = 0 /\ name_spaces = <<>>
    /\ current_namespace = None /\ previous_tag = None /\ ns_pc = "idle"
ClaimsIdle ==
    /\ namespace = <<>> /\ start_i = 0 /\ claims = <<>> /\ claims_pc = "idle"
XmlIdle ==
    /\ soup = None /\ version = None /\ references = None /\ inventor_tags = None
    /\ parsed = <<>> /\ patent = None /\ xml_pc = "idle"
ZipIdle ==
    /\ unzipped = <<>> /\ member_i = 0 /\ splitter = "" /\ pending = <<>>
    /\ patents = <<>> /\ n_failures = 0 /\ zip_pc = "idle"
TagIdle ==
    /\ doc_file = [dialect |-> "idle", text |-> <<>>] /\ doc_lines = <<>> /\ doc_i = 0
    /\ doc_start_i = 0 /\ yielded = <<>> /\ tag_pc = "idle"
EarlierIdle == ChunkIdle /\ NsIdle /\ ClaimsIdle /\ XmlIdle /\ ZipIdle
SgmlIdle ==
    /\ sgml_soup = None /\ sgml_parsed = <<>> /\ sgml_patent = None /\ sgml_pc = "idle"
CtorIdle ==
    /\ ctor = [cls |-> "idle", kwargs |-> <<>>] /\ constructed = None /\ ctor_pc = "idle"
TextIdle ==
    /\ content_patents = <<>> /\ out_lines = <<>> /\ archive_text = <<>> /\ patents_raw = <<>> /\ parsed_patents = <<>> /\ text_pc = "idle"
NumberIdle ==
    /\ raw_p_num = <<>> /\ field_type = None /\ p_num = None /\ number_pc = "idle"
DateIdle ==
    /\ date_arg = <<>> /\ date_str = <<>> /\ date = None /\ date_pc = "idle"
StoreIdle ==
    /\ archive_files = <<>> /\ to_skip = {} /\ file_i = 0 /\ file_patents = <<>> /\ values = <<>> /\ fulltexts = <<>> /\ citing = <<>> /\ transaction = <<>> /\ database = <<>> /\ store_pc = "idle"
FetchIdle ==
    /\ operation = "" /\ page = <<>> /\ fetch_soup = <<>> /\ fetched = <<>> /\ fetch_pc = "idle"
ApsIdle ==
    /\ aps_chunk = <<>> /\ aps_namespaces = <<>> /\ aps_ns_i = 0 /\ aps_values = <<>> /\ aps_patent = <<>> /\ aps_pc = "idle"
DownloadIdle ==
    n_jobs = -1 /\ zip_links = <<>> /\ pool = <<>> /\ pool_tasks = <<>> /\ queue = <<>> /\ jobs = <<>> /\ main_pc = "idle" /\ listener_pc = "idle" /\ received = <<>>
ProxyIdle ==
    get_url = <<>> /\ proxies = <<>> /\ attempts = <<>> /\ refreshes = 0 /\ get_response = <<>> /\ get_pc = "idle"
LaterIdle == TagIdle /\ SgmlIdle /\ CtorIdle /\ TextIdle /\ NumberIdle /\ DateIdle /\ StoreIdle /\ FetchIdle /\ ApsIdle /\ DownloadIdle /\ ProxyIdle

(***************************************************************************)
(* Bounds of the model.                                                    *)
(***************************************************************************)
\* lines of an APS file handed to chunk_aps_file
MaxFileLines == 4

(***************************************************************************)
(* Strings.                                                                *)
(***************************************************************************)
SeqsUpTo(S, n) == UNION {[1..k -> S] : k \in 0..n}

\* The characters str.rstrip() and str.strip() remove.
Whitespace == {" ", "\n", "\t", "\r"}

\* str.rstrip()
RECURSIVE RStrip(_)
RStrip(s) ==
    IF s = <<>> THEN <<>>
    ELSE IF s[Len(s)] \in Whitespace THEN RStrip(SubSeq(s, 1, Len(s) - 1))
    ELSE s

\* str.lstrip()
RECURSIVE LStrip(_)
LStrip(s) ==
    IF s = <<>> THEN <<>>
    ELSE IF s[1] \in Whitespace THEN LStrip(Tail(s))
    ELSE s

\* str.strip()
Strip(s) == LStrip(RStrip(s))

\* s.startswith(p)
StartsWith(s, p) == Len(s) >= Len(p) /\ SubSeq(s, 1, Len(p)) = p

\* p in s
Contains(s, p) ==
    \E i \in 1..(Len(s) - Len(p) + 1) : SubSeq(s, i, i + Len(p) - 1) = p

\* sep.join(parts)
RECURSIVE Join(_, _)
Join(sep, parts) ==
    IF parts = <<>> THEN <<>>
    ELSE IF Len(parts) = 1 THEN parts[1]
    ELSE parts[1] \o sep \o Join(sep, Tail(parts))

\* s.count(c) for a one-character c
Count(s, c) == Cardinality({i \in 1..Len(s) : s[i] = c})

\* The increasing sequence of the members of a finite set of integers.
RECURSIVE SortedSeq(_)
SortedSeq(S) ==
    IF S = {} THEN <<>>
    ELSE LET m == CHOOSE x \in S : \A y \in S : x <= y
         IN <<m>> \o SortedSeq(S \ {m})

PATN == <<"P", "A", "T", "N">>
NL == <<"\n">>

(***************************************************************************)
(* chunk_aps_file (parse/aps.py 111-145).                                  *)
(***************************************************************************)
\* Lines an APS file is made of (without their line terminator).
ApsFileLines ==
    { PATN,
      <<"P", "A", "T", "N", " ", " ">>,                     \* trailing spaces
      <<" ", "P", "A", "T", "N">>,                          \* leading space
      <<"T", "T", "L", " ", " ", "P", "A", "T", "N">>,      \* PATN as payload
      <<"W", "K", "U", " ", " ", "1">>,
      <<>> }                                                \* empty line

\* The text of a file: every line followed by its terminator.
RECURSIVE FileText(_)
FileText(ls) ==
    IF ls = <<>> THEN <<>> ELSE ls[1] \o NL \o FileText(Tail(ls))

\* f.readlines(): the lines, each with its terminator.
Readlines(ls) == [i \in 1..Len(ls) |-> ls[i] \o NL]

\* Iterating a str gives its characters, each a str of length one.
CharsOf(text) == [i \in 1..Len(text) |-> <<text[i]>>]

\* all_contents[1:]
DropFirst(seq) == IF seq = <<>> THEN <<>> ELSE Tail(seq)

\* map(str.rstrip, ...) then list(filter(len, ...))   (lines 138-140)
StripAndFilter(seq) ==
    SelectSeq([i \in 1..Len(seq) |-> RStrip(seq[i])], LAMBDA l : Len(l) > 0)

\* A wrong scan for the boundary: by containment instead of equality.
IndicesByContainment(seq) ==
    SortedSeq({i \in 1..Len(seq) : Contains(seq[i], PATN)})

\* [i for i, j in enumerate(all_contents) if j == "PATN"]   (line 142)
Indices(seq) ==
    SortedSeq({i \in 1..Len(seq) : seq[i] = PATN})

\* A wrong slice: the patent without the line its index points at.
PatentAtAfterHeader(seq, idx, k) ==
    SubSeq(seq, idx[k] + 1, IF k < Len(idx) THEN idx[k + 1] - 1 ELSE Len(seq))

\* all_contents[i:j] for the k-th pair of zip(indices, indices[1:]+[None])
PatentAt(seq, idx, k) ==
    SubSeq(seq, idx[k], IF k < Len(idx) THEN idx[k + 1] - 1 ELSE Len(seq))

ChunkInit ==
    /\ aps \in [form : {"file", "str"}, lines : SeqsUpTo(ApsFileLines, MaxFileLines)]
    /\ all_contents = <<>> /\ indices = <<>> /\ chunks = <<>>
    /\ chunk_pc = "start"

NotChunk == <<nsVars, claimsVars, xmlVars, zipVars, laterVars>>

\* lines 126-135: a file-like is read with readlines(); a str that names no
\* file (open raises IOError) is taken to be the contents themselves.
ReadContents ==
    /\ chunk_pc = "start"
    /\ all_contents' = IF aps.form = "file" THEN Readlines(aps.lines)
                       ELSE CharsOf(FileText(aps.lines))
    /\ chunk_pc' = "read"
    /\ UNCHANGED <<aps, indices, chunks, NotChunk>>

\* lines 138-140
CleanContents ==
    /\ chunk_pc = "read"
    /\ all_contents' = StripAndFilter(DropFirst(all_contents))
    /\ chunk_pc' = "cleaned"
    /\ UNCHANGED <<aps, indices, chunks, NotChunk>>

\* line 142
FindIndices ==
    /\ chunk_pc = "cleaned"
    /\ indices' = Indices(all_contents)
    /\ chunk_pc' = "yielding"
    /\ UNCHANGED <<aps, all_contents, chunks, NotChunk>>

\* lines 143-145: the generator yields the next patent
YieldPatent ==
    /\ chunk_pc = "yielding"
    /\ Len(chunks) < Len(indices)
    /\ chunks' = Append(chunks, PatentAt(all_contents, indices, Len(chunks) + 1))
    /\ UNCHANGED <<aps, all_contents, indices, chunk_pc, NotChunk>>

\* the generator is exhausted
ChunkDone ==
    /\ chunk_pc = "yielding"
    /\ Len(chunks) = Len(indices)
    /\ chunk_pc' = "done"
    /\ UNCHANGED <<aps, all_contents, indices, chunks, NotChunk>>

ChunkNext == ReadContents \/ CleanContents \/ FindIndices \/ YieldPatent \/ ChunkDone

InitChunk == ChunkInit /\ NsIdle /\ ClaimsIdle /\ XmlIdle /\ ZipIdle /\ LaterIdle

SpecChunk == InitChunk /\ [][ChunkNext]_vars

\* What chunk_aps_file yields for a file-like holding the lines ls.
chunk_aps_file_lines(ls) ==
    LET c == StripAndFilter(DropFirst(Readlines(ls)))
        idx == Indices(c)
    IN [k \in 1..Len(idx) |-> PatentAt(c, idx, k)]

\* What chunk_aps_file yields for a str holding the text.
chunk_aps_file_str(text) ==
    LET c == StripAndFilter(DropFirst(CharsOf(text)))
        idx == Indices(c)
    IN [k \in 1..Len(idx) |-> PatentAt(c, idx, k)]

\* The lines of the file as the claim counts them: the first dropped, trailing
\* whitespace stripped, empty lines removed.
CleanedLines(ls) ==
    SelectSeq([i \in 1..Len(DropFirst(ls)) |-> RStrip(DropFirst(ls)[i])],
              LAMBDA l : l # <<>>)

RECURSIVE Flatten(_)
Flatten(ss) == IF ss = <<>> THEN <<>> ELSE ss[1] \o Flatten(Tail(ss))

\* C3: for a buffer of lines, chunk_aps_file yields one chunk per cleaned line
\* that equals "PATN"; each chunk starts with such a line and holds no other,
\* and the chunks, put end to end, are the cleaned lines from the first "PATN"
\* line to the end of input (so the last chunk runs to the end and a line that
\* only contains "PATN" never starts a chunk).
C3_ChunkPerPatnLine ==
    (chunk_pc = "done" /\ aps.form = "file") =>
        LET c == CleanedLines(aps.lines)
            starts == {i \in 1..Len(c) : c[i] = PATN}
        IN /\ Len(chunks) = Cardinality(starts)
           /\ \A k \in 1..Len(chunks) :
                  /\ chunks[k] # <<>>
                  /\ chunks[k][1] = PATN
                  /\ \A j \in 2..Len(chunks[k]) : chunks[k][j] # PATN
           /\ Flatten(chunks) =
                  IF starts = {} THEN <<>>
                  ELSE SubSeq(c, CHOOSE i \in starts : \A j \in starts : i <= j, Len(c))

\* Two documents were yielded, one of them holding "PATN" as payload of a field.
C3_Witness ==
    /\ chunk_pc = "done" /\ aps.form = "file"
    /\ Len(chunks) = 2
    /\ \E k \in 1..2 : \E j \in 2..Len(chunks[k]) :
           chunks[k][j] # PATN /\ Contains(chunks[k][j], PATN)

\* C4: chunk_aps_file given the contents as one str yields the chunks it yields
\* for the same contents given as a file-like buffer of lines.
C4_StrSameAsFile ==
    (chunk_pc = "done" /\ aps.form = "str") =>
        chunks = chunk_aps_file_lines(aps.lines)

(***************************************************************************)
(* parse_aps_into_namespaces (parse/aps.py 71-108).                        *)
(*                                                                         *)
(* A NameSpace is [name, data], data the sequence of its Tags [key, data]. *)
(* current_namespace refers to a NameSpace by <<its place in name_spaces>> *)
(* and previous_tag to a Tag by <<place of its NameSpace, place in its     *)
(* data>>: both are references to objects that live in name_spaces.        *)
(***************************************************************************)
INVT == <<"I", "N", "V", "T">>

\* Lines of an APS document.
ApsLines ==
    { PATN,
      INVT,
      <<"I", "N", "V", "T", " ", " ", "x">>,       \* header with trailing text
      <<"W", "K", "U", " ", " ", "1", "2">>,
      <<"T", "T", "L", " ", " ", "a", "b">>,
      <<" ", " ", " ", " ", " ", "c", "d">> }      \* continuation: blank key

\* line[:n]
Prefix(s, n) == SubSeq(s, 1, IF Len(s) < n THEN Len(s) ELSE n)
\* line[n:]
Suffix(s, n) == SubSeq(s, n + 1, Len(s))

\* lines 90-91
NormalizeInvt(line) == IF StartsWith(line, INVT) THEN INVT ELSE line
\* line 92
IsHeader(line) == Len(NormalizeInvt(line)) = 4
\* lines 96-97
TagKey(line) == Prefix(line, 3)
TagData(line) == Suffix(line, 5)
\* line 99: not tag.strip()
IsContinuation(line) == ~IsHeader(line) /\ Strip(TagKey(line)) = <<>>

\* A wrong continuation: the payloads joined with a separating space.
AppendToTagWithSeparator(nss, ref, data) ==
    [nss EXCEPT ![ref[1]].data[ref[2]].data = @ \o <<" ">> \o data]

\* A wrong continuation: the payload goes to the first Tag of the namespace.
AppendToFirstTag(nss, ref, data) ==
    [nss EXCEPT ![ref[1]].data[1].data = @ \o data]

\* line 100: previous_tag.data += data
AppendToTag(nss, ref, data) ==
    [nss EXCEPT ![ref[1]].data[ref[2]].data = @ \o data]

\* lines 104-105: current_namespace.add_tag(Tag(tag, data))
AddTag(nss, ns, key, data) ==
    [nss EXCEPT ![ns].data = Append(@, [key |-> key, data |-> data])]

\* lines of a document handed to parse_aps_into_namespaces
MaxDocLines == 4

NsInit ==
    /\ lines \in SeqsUpTo(ApsLines, MaxDocLines)
    /\ line_i = 0 /\ name_spaces = <<>>
    /\ current_namespace = None /\ previous_tag = None
    /\ ns_pc = "loop"

NotNs == <<chunkVars, claimsVars, xmlVars, zipVars, laterVars>>

\* lines 89-106: the body of the loop for one line, on the three local names;
\* exc names the exception it raises, "" when none.
NsStep(nss, cur, prev, line) ==
    IF IsHeader(line)
    THEN [name_spaces |-> Append(nss, [name |-> NormalizeInvt(line), data |-> <<>>]),
          current_namespace |-> <<Len(nss) + 1>>,
          previous_tag |-> prev, exc |-> ""]
    ELSE IF IsContinuation(line)
    THEN IF prev = None
         THEN \* None has no attribute data
              [name_spaces |-> nss, current_namespace |-> cur,
               previous_tag |-> prev, exc |-> "AttributeError"]
         ELSE [name_spaces |-> AppendToTag(nss, prev, TagData(line)),
               current_namespace |-> cur, previous_tag |-> prev, exc |-> ""]
    ELSE IF cur = None
         THEN [name_spaces |-> nss, current_namespace |-> cur,
               previous_tag |-> prev, exc |-> "ParseError"]
         ELSE [name_spaces |-> AddTag(nss, cur[1], TagKey(line), TagData(line)),
               current_namespace |-> cur,
               previous_tag |-> <<cur[1], Len(nss[cur[1]].data) + 1>>,
               exc |-> ""]

\* lines 88-106: one pass of the loop over the lines
ParseLine ==
    /\ ns_pc = "loop"
    /\ line_i < Len(lines)
    /\ LET st == NsStep(name_spaces, current_namespace, previous_tag,
                        lines[line_i + 1])
       IN /\ line_i' = line_i + 1
          /\ name_spaces' = st.name_spaces
          /\ current_namespace' = st.current_namespace
          /\ previous_tag' = st.previous_tag
          /\ ns_pc' = IF st.exc = "" THEN "loop" ELSE st.exc
    /\ UNCHANGED <<lines, NotNs>>

\* line 108
ReturnNamespaces ==
    /\ ns_pc = "loop"
    /\ line_i = Len(lines)
    /\ ns_pc' = "returned"
    /\ UNCHANGED <<lines, line_i, name_spaces, current_namespace, previous_tag, NotNs>>

NsNext == ParseLine \/ ReturnNamespaces

InitNs == NsInit /\ ChunkIdle /\ ClaimsIdle /\ XmlIdle /\ ZipIdle /\ LaterIdle

SpecNs == InitNs /\ [][NsNext]_vars

\* The Tags of all namespaces, in document order.
RECURSIVE AllTags(_)
AllTags(nss) ==
    IF nss = <<>> THEN <<>> ELSE nss[1].data \o AllTags(Tail(nss))

\* The payloads of the continuation lines that directly follow line i, up to
\* the next field line (namespace headers in between are passed over).
RECURSIVE ContinuedPayload(_, _)
ContinuedPayload(ls, i) ==
    IF i > Len(ls) THEN <<>>
    ELSE IF IsHeader(ls[i]) THEN ContinuedPayload(ls, i + 1)
    ELSE IF IsContinuation(ls[i]) THEN TagData(ls[i]) \o ContinuedPayload(ls, i + 1)
    ELSE <<>>

\* The fields of a document: one per field line, its data the payload of the
\* line followed by the payloads of its continuation lines.
FieldsOf(ls) ==
    LET at == SortedSeq({i \in 1..Len(ls) : ~IsHeader(ls[i]) /\ ~IsContinuation(ls[i])})
    IN [k \in 1..Len(at) |->
           [key |-> TagKey(ls[at[k]]),
            data |-> TagData(ls[at[k]]) \o ContinuedPayload(ls, at[k] + 1)]]

\* C5: a field continued over lines with a blank key is one Tag whose data is
\* the payloads of the lines one after the other, nothing inserted; no Tag is
\* made for a continuation line, however many follow each other.
C5_ContinuationConcatenates ==
    ns_pc = "returned" => AllTags(name_spaces) = FieldsOf(lines)

\* A field line followed by two continuation lines was parsed.
C5_Witness ==
    /\ ns_pc = "returned"
    /\ \E i \in 1..(Len(lines) - 2) :
           /\ ~IsHeader(lines[i]) /\ ~IsContinuation(lines[i])
           /\ IsContinuation(lines[i + 1]) /\ IsContinuation(lines[i + 2])

\* C7: when a line that is no namespace header comes before any namespace
\* header, parse_aps_into_namespaces ends with ParseError (and so returns no
\* namespaces).
C7_FieldBeforeHeaderIsParseError ==
    (/\ lines # <<>>
     /\ ~IsHeader(lines[1])
     /\ line_i >= 1) => ns_pc = "ParseError"


(***************************************************************************)
(* _get_aps_claims (parse/aps.py 302-332).                                 *)
(*                                                                         *)
(* namespace is namespace.data, the Tags of a CLMS namespace.  A Tag has   *)
(* no __eq__, so list.index finds a Tag by identity: each Tag carries its  *)
(* identity in the field id.  start_i and first_p_i hold Python's 0-based  *)
(* values.                                                                 *)
(***************************************************************************)
\* Tag.is_paragraph (lines 18-19): re.match('PA.', self.key)
IsParagraph(tag) ==
    /\ Len(tag.key) >= 3
    /\ tag.key[1] = "P" /\ tag.key[2] = "A" /\ tag.key[3] # "\n"

\* The keys and payloads the Tags of a claims namespace are drawn from.
ClaimTagKinds ==
    { [key |-> <<"P", "A", "R">>, data |-> <<"a">>],
      [key |-> <<"P", "A", "R">>, data |-> <<"b">>],
      [key |-> <<"P", "A", "1">>, data |-> <<>>],
      [key |-> <<"N", "U", "M">>, data |-> <<"1">>],
      [key |-> <<"S", "T", "M">>, data |-> <<"a">>] }

\* Tags of a claims namespace
MaxTags == 5

\* The Tag objects built from a sequence of (key, data): one object per place.
TagObjects(kinds) ==
    [i \in 1..Len(kinds) |-> [id |-> i, key |-> kinds[i].key, data |-> kinds[i].data]]

\* lines 318-319: the place (0-based) of the first paragraph Tag of
\* data[start:], or None when dropwhile leaves nothing (StopIteration).
FirstParagraph(data, start) ==
    LET at == {i \in (start + 1)..Len(data) : IsParagraph(data[i])}
    IN IF at = {} THEN None
       ELSE <<data[CHOOSE i \in at : \A j \in at : i <= j]>>

\* line 323: namespace.data.index(first_p), 0-based
IndexOf(data, obj) ==
    (CHOOSE i \in 1..Len(data) :
        data[i].id = obj.id /\ \A j \in 1..(i - 1) : data[j].id # obj.id) - 1

\* lines 325-326: takewhile(is_paragraph, data[first_p_i:])
RECURSIVE TakeParagraphs(_)
TakeParagraphs(rest) ==
    IF rest = <<>> \/ ~IsParagraph(rest[1]) THEN <<>>
    ELSE <<rest[1]>> \o TakeParagraphs(Tail(rest))

\* line 327
JoinData(tags) == Join(NL, [i \in 1..Len(tags) |-> tags[i].data])

\* A wrong restart: at the last Tag of the run instead of after it.
NextStartInsideRun(first_p_i, claim) == first_p_i + Count(claim, "\n")

\* line 329
NextStart(first_p_i, claim) == first_p_i + Count(claim, "\n") + 1

ClaimsInit ==
    /\ namespace \in {TagObjects(k) : k \in SeqsUpTo(ClaimTagKinds, MaxTags)}
    /\ start_i = 0 /\ claims = <<>>
    /\ claims_pc = "loop"

NotClaims == <<chunkVars, nsVars, xmlVars, zipVars, laterVars>>

\* lines 316-330: one pass of the while loop that finds a claim
NextClaim ==
    /\ claims_pc = "loop"
    /\ FirstParagraph(namespace, start_i) # None
    /\ LET first_p == FirstParagraph(namespace, start_i)[1]
           first_p_i == IndexOf(namespace, first_p)
           claim == JoinData(TakeParagraphs(Suffix(namespace, first_p_i)))
       IN /\ start_i' = NextStart(first_p_i, claim)
          /\ claims' = Append(claims, claim)
    /\ UNCHANGED <<namespace, claims_pc, NotClaims>>

\* lines 320-321, 332: StopIteration breaks the loop and the claims are returned
ReturnClaims ==
    /\ claims_pc = "loop"
    /\ FirstParagraph(namespace, start_i) = None
    /\ claims_pc' = "returned"
    /\ UNCHANGED <<namespace, start_i, claims, NotClaims>>

ClaimsNext == NextClaim \/ ReturnClaims

InitClaims == ClaimsInit /\ ChunkIdle /\ NsIdle /\ XmlIdle /\ ZipIdle /\ LaterIdle

SpecClaims == InitClaims /\ [][ClaimsNext]_vars

\* The places where a maximal run of paragraph Tags starts, and where the run
\* that starts at i ends.
RunStarts(tags) ==
    {i \in 1..Len(tags) :
        IsParagraph(tags[i]) /\ (i = 1 \/ ~IsParagraph(tags[i - 1]))}
RunEnd(tags, i) ==
    CHOOSE j \in i..Len(tags) :
        /\ \A k \in i..j : IsParagraph(tags[k])
        /\ (j = Len(tags) \/ ~IsParagraph(tags[j + 1]))

\* One claim per maximal run, in document order.
ClaimsByRun(tags) ==
    LET st == SortedSeq(RunStarts(tags))
    IN [k \in 1..Len(st) |->
           Join(NL, [m \in 1..(RunEnd(tags, st[k]) - st[k] + 1) |->
                        tags[st[k] + m - 1].data])]

\* C6: _get_aps_claims returns one claim per maximal run of consecutive
\* paragraph Tags, in document order, each the newline-join of the data of its
\* run; it never makes more passes than there are runs, and it returns once no
\* paragraph Tag is left.
C6_OneClaimPerRun ==
    /\ claims_pc \in {"loop", "returned"} =>
           Len(claims) <= Cardinality(RunStarts(namespace))
    /\ claims_pc = "returned" => claims = ClaimsByRun(namespace)

\* [non-paragraph, C1a, C1b, non-paragraph, C2a] gave "C1a\nC1b" and "C2a".
C6_Witness ==
    /\ claims_pc = "returned"
    /\ Len(namespace) = 5
    /\ ~IsParagraph(namespace[1]) /\ IsParagraph(namespace[2])
    /\ IsParagraph(namespace[3]) /\ ~IsParagraph(namespace[4])
    /\ IsParagraph(namespace[5])
    /\ claims = << <<"a", "\n", "b">>, <<"a">> >>


(***************************************************************************)
(* The record types (parse/patent.py).                                     *)
(*                                                                         *)
(* A Python value that may be None is None or Some(value).  Keyword        *)
(* arguments are a function from the keywords to such values.              *)
(***************************************************************************)
Some(v) == <<v>>

\* Inventor.__init__ (lines 8-13)
InventorDefaults ==
    [name |-> None, country |-> None, city |-> None, zip_code |-> None,
     state |-> None]

\* USReference.__init__ (lines 96-99)
USReferenceDefaults ==
    [patent_number |-> None, issue_date |-> None, patentee_name |-> None]

\* USPatent.__init__ (lines 137-160)
USPatentDefaults ==
    [patent_number |-> None, series_code |-> None, application_number |-> None,
     application_type |-> None, art_unit |-> None, application_date |-> None,
     title |-> None, primary_examiner |-> None, parent_code |-> None,
     parent_application_number |-> None, parent_status_code |-> None,
     us_references |-> Some(<<>>), inventors |-> Some(<<>>),
     claims |-> Some(<<>>), design_claims |-> None, abstract |-> None,
     brief_summary |-> None, description |-> None,
     patent_classification |-> None]

\* hasattr(instance, key) (line 315): true of the data attributes set by
\* __init__ and of what the class defines, such as __init__ itself (lines 8,
\* 50, 96 and 137).
ClassAttributes == {"__init__"}
HasAttr(instance, key) == key \in DOMAIN instance \/ key \in ClassAttributes

\* _set_attributes_from_kwargs (lines 299-318): the instance with the keywords
\* set, or ValueError when a keyword is no attribute of the instance.
SetAttributesFromKwargs(instance, kwargs) ==
    IF \A key \in DOMAIN kwargs : HasAttr(instance, key)
    THEN [exc |-> "", obj |-> [k \in DOMAIN instance \cup DOMAIN kwargs |->
                                  IF k \in DOMAIN kwargs THEN kwargs[k]
                                  ELSE instance[k]]]
    ELSE [exc |-> "ValueError", obj |-> instance]

Inventor(kwargs) == SetAttributesFromKwargs(InventorDefaults, kwargs)
USReference(kwargs) == SetAttributesFromKwargs(USReferenceDefaults, kwargs)
USPatent(kwargs) == SetAttributesFromKwargs(USPatentDefaults, kwargs)

(***************************************************************************)
(* parse_xml_chunk (parse/xml.py 49-262).                                  *)
(*                                                                         *)
(* soup is the parsed chunk: root tells whether it holds a us-patent-grant *)
(* element, dtd_version and country are attributes of that element, and    *)
(* every other field is the element of that name found below it, None when *)
(* find() finds none.  Element texts are strings.                          *)
(***************************************************************************)
\* Characters in ASCII order, for the comparison of strings.
Ascii == <<" ", "-", ".", "0", "1", "2", "3", "4", "5", "6", "7", "8", "9", "v">>
Ord(c) == CHOOSE i \in 1..Len(Ascii) : Ascii[i] = c

\* a < b for str
RECURSIVE StrLess(_, _)
StrLess(a, b) ==
    IF b = <<>> THEN FALSE
    ELSE IF a = <<>> THEN TRUE
    ELSE IF a[1] # b[1] THEN Ord(a[1]) < Ord(b[1])
    ELSE StrLess(Tail(a), Tail(b))

\* s.split()[0]: the first run of characters that are not whitespace
RECURSIVE UpToWhitespace(_)
UpToWhitespace(s) ==
    IF s = <<>> \/ s[1] \in Whitespace THEN <<>>
    ELSE <<s[1]>> \o UpToWhitespace(Tail(s))
FirstToken(s) == UpToWhitespace(LStrip(s))

\* s.replace('.', '')
RemoveDots(s) == SelectSeq(s, LAMBDA c : c # ".")

\* A version left as it is written in the document.
VersionAsWritten(dtd_version) == FirstToken(dtd_version)

\* lines 69-71
NormalizedVersion(dtd_version) == RemoveDots(FirstToken(dtd_version))

V43 == <<"v", "4", "3">>

\* safe_text (lines 261-262)
SafeText(tag) == IF tag = None THEN None ELSE Some(Strip(tag[1]))

\* ' '.join(filter(None, parts)): the parts that are neither None nor empty
RECURSIVE JoinNonEmpty(_)
JoinNonEmpty(parts) ==
    IF parts = <<>> THEN <<>>
    ELSE LET rest == JoinNonEmpty(Tail(parts))
         IN IF parts[1] = None \/ parts[1][1] = <<>> THEN rest
            ELSE IF rest = <<>> THEN parts[1][1]
            ELSE parts[1][1] \o <<" ">> \o rest

\* _parse_name_group (lines 159-172) for a tag that is not None
ParseNameGroup(tag) ==
    [name |-> Some(JoinNonEmpty(<<SafeText(tag.first_name), SafeText(tag.last_name)>>)),
     city |-> SafeText(tag.city),
     country |-> SafeText(tag.country),
     state |-> SafeText(tag.state)]

\* _parse_pub_ref (lines 187-194) for a publication-reference that is present
ParsePubRef(pub_ref) ==
    [patent_number |-> Some(Strip(pub_ref.doc_number)),
     country |-> Some(Strip(pub_ref.country)),
     kind |-> SafeText(pub_ref.kind),
     date |-> SafeText(pub_ref.date)]

\* _parse_app_ref (lines 209-215) for an application-reference that is present
ParseAppRef(app_ref) ==
    [application_number |-> Some(Strip(app_ref.doc_number)),
     application_country |-> Some(Strip(app_ref.country)),
     application_date |-> SafeText(app_ref.date)]

\* lines 232-237: the element that holds the citations
CitationList(s, v) ==
    IF StrLess(v, V43) THEN s.references_cited ELSE s.us_references_cited

\* lines 249-254: the keywords of one reference
ReferenceKwargs(doc_id) ==
    [patent_number |-> Some(Strip(doc_id.doc_number)),
     country |-> Some(Strip(doc_id.country)),
     patentee_name |-> SafeText(doc_id.name),
     issue_date |-> SafeText(doc_id.date)]

\* lines 245-256: the references built from the citations that have a
\* document-id
ReferencesOf(refs) ==
    LET with_id == SelectSeq(refs, LAMBDA r : r.document_id # None)
    IN [i \in 1..Len(with_id) |-> USReference(ReferenceKwargs(with_id[i].document_id[1]))]

\* lines 125-130: the element that holds the applicants of a US document
ApplicantList(s, v) ==
    IF StrLess(v, V43) THEN s.applicants ELSE s.us_applicants

\* A wrong filter: the flag is looked at only below v4.3.
InventorTagsUnfilteredFromV43(s, v) ==
    IF s.country = <<"U", "S">>
    THEN IF StrLess(v, V43)
         THEN SelectSeq(s.applicants[1], LAMBDA t : t.app_type = "applicant-inventor")
         ELSE s.us_applicants[1]
    ELSE s.inventors[1]

\* lines 124-136: the tags the inventors are built from, the lists being present
InventorTags(s, v) ==
    IF s.country = <<"U", "S">>
    THEN SelectSeq(ApplicantList(s, v)[1], LAMBDA t : t.app_type = "applicant-inventor")
    ELSE s.inventors[1]

\* The dtd-version attributes found in the grants of different years.
DtdVersions ==
    { <<"v", "4", "0", " ", "2", "0", "0", "4", "-", "1", "2", "-", "0", "2">>,
      <<"v", "4", ".", "2", " ", "2", "0", "0", "6", "-", "0", "8", "-", "2", "3">>,
      <<"v", "4", "2">>,
      <<"v", "4", ".", "3", " ", "2", "0", "1", "2", "-", "1", "2", "-", "0", "4">>,
      <<"v", "4", "3">>,
      <<"v", "4", ".", "4", " ", "2", "0", "1", "3", "-", "0", "5", "-", "1", "6">>,
      <<"v", "4", ".", "5", " ", "2", "0", "1", "4", "-", "0", "4", "-", "0", "3">> }

US == <<"U", "S">>
EP == <<"E", "P">>

\* citations of one citation list, applicants of one applicant list
MaxCitations == 2
MaxApplicants == 2

\* A document-id, and the citations of the list called tag: with and without
\* a document-id.
DocumentId(number) ==
    [doc_number |-> number, country |-> US, name |-> None, date |-> None]
Citations(number) ==
    { [document_id |-> Some(DocumentId(number))], [document_id |-> None] }

\* An addressbook entry: app_type is its app-type attribute.
Party(app_type, last_name) ==
    [app_type |-> app_type, first_name |-> None, last_name |-> Some(last_name),
     city |-> None, country |-> None, state |-> None]
Applicants(last_name) ==
    { Party("applicant-inventor", last_name), Party("applicant", last_name) }

\* An element that is absent, or present with up to n children drawn from S.
Optional(S, n) == {None} \cup {Some(l) : l \in SeqsUpTo(S, n)}

PubRef ==
    [doc_number |-> <<" ", "7", " ">>, country |-> <<"U", "S", "\n">>,
     kind |-> Some(<<"B", "2">>), date |-> Some(<<"2", "0", "1", "0", "0", "2", "0", "2">>)]
AppRef ==
    [doc_number |-> <<"1", "2", "\n">>, country |-> US,
     date |-> Some(<<"2", "0", "0", "8", "0", "1", "0", "1">>)]

\* A complete grant with no citation and no applicant.
BaseDoc ==
    [root |-> TRUE,
     dtd_version |-> <<"v", "4", ".", "2", " ", "2", "0", "0", "6", "-", "0", "8", "-", "2", "3">>,
     country |-> US,
     publication_reference |-> Some(PubRef),
     application_reference |-> Some(AppRef),
     references_cited |-> Some(<<>>),
     us_references_cited |-> Some(<<>>),
     applicants |-> Some(<<>>),
     us_applicants |-> Some(<<>>),
     inventors |-> Some(<<>>),
     primary_examiner |-> Some(Party("", <<"E">>)),
     series_code |-> Some(<<"1", "2">>),
     abstract |-> Some(<<"a">>),
     claims |-> Some(<< <<"c">> >>),
     description |-> None,
     title |-> Some(<<"t">>)]

\* Grants that differ in their version and their two citation lists.
CitationDocs ==
    { [BaseDoc EXCEPT !.dtd_version = v, !.references_cited = o,
                      !.us_references_cited = n] :
        v \in DtdVersions,
        o \in Optional(Citations(<<"1">>), MaxCitations),
        n \in Optional(Citations(<<"2">>), MaxCitations) }

\* Grants that differ in their version, country and three party lists.
InventorDocs ==
    { [BaseDoc EXCEPT !.dtd_version = v, !.country = c, !.applicants = a,
                      !.us_applicants = u, !.inventors = i] :
        v \in DtdVersions, c \in {US, EP},
        a \in Optional(Applicants(<<"A">>), MaxApplicants),
        u \in Optional(Applicants(<<"U">>), MaxApplicants),
        i \in Optional({Party("", <<"I">>)}, MaxApplicants) }

\* Chunks with an element missing.
PartialDocs ==
    { [BaseDoc EXCEPT !.root = r, !.publication_reference = p,
                      !.application_reference = a, !.primary_examiner = e,
                      !.claims = c] :
        r \in BOOLEAN,
        p \in {None, Some(PubRef), Some([PubRef EXCEPT !.kind = None, !.date = None])},
        a \in {None, Some(AppRef)},
        e \in {None, BaseDoc.primary_examiner},
        c \in {None, Some(<<>>), BaseDoc.claims} }

XmlChunks == CitationDocs \cup InventorDocs \cup PartialDocs

XmlInit ==
    /\ soup \in XmlChunks
    /\ version = None /\ references = None /\ inventor_tags = None
    /\ parsed = <<>> /\ patent = None
    /\ xml_pc = "find_root"

NotXml == <<chunkVars, nsVars, claimsVars, zipVars, laterVars>>

\* lines 64-71
FindRoot ==
    /\ xml_pc = "find_root"
    /\ IF ~soup.root
       THEN /\ xml_pc' = "ValueError(no patent in chunk.)"
            /\ UNCHANGED version
       ELSE /\ version' = NormalizedVersion(soup.dtd_version)
            /\ xml_pc' = "pub_app_ref"
    /\ UNCHANGED <<soup, references, inventor_tags, parsed, patent, NotXml>>

\* lines 73-75: find() gives None for an absent element and None has no find
ParsePubAppRef ==
    /\ xml_pc = "pub_app_ref"
    /\ IF soup.publication_reference = None \/ soup.application_reference = None
       THEN /\ xml_pc' = "AttributeError"
            /\ UNCHANGED parsed
       ELSE /\ parsed' = ParsePubRef(soup.publication_reference[1])
                         @@ ParseAppRef(soup.application_reference[1])
            /\ xml_pc' = "us_references"
    /\ UNCHANGED <<soup, version, references, inventor_tags, patent, NotXml>>

\* line 76 and _parse_us_references (lines 232-258)
ParseUsReferences ==
    /\ xml_pc = "us_references"
    /\ LET main == CitationList(soup, version) IN
       IF main = None
       THEN \* AttributeError is caught: no references
            /\ references' = Some(<<>>)
            /\ parsed' = parsed @@ [us_references |-> Some(<<>>)]
            /\ xml_pc' = "inventors"
       ELSE LET built == ReferencesOf(main[1]) IN
            /\ references' = Some(main[1])
            /\ IF \E i \in 1..Len(built) : built[i].exc # ""
               THEN /\ xml_pc' = "ValueError(Invalid key-word argument)"
                    /\ UNCHANGED parsed
               ELSE /\ parsed' = parsed @@
                          [us_references |->
                              Some([i \in 1..Len(built) |-> built[i].obj])]
                    /\ xml_pc' = "inventors"
    /\ UNCHANGED <<soup, version, inventor_tags, patent, NotXml>>

\* lines 77-78 and _parse_inventors (lines 124-143)
ParseInventors ==
    /\ xml_pc = "inventors"
    /\ LET list == IF soup.country = US THEN ApplicantList(soup, version)
                   ELSE soup.inventors
       IN IF list = None
          THEN /\ xml_pc' = "AttributeError"
               /\ UNCHANGED <<inventor_tags, parsed>>
          ELSE LET tags == InventorTags(soup, version) IN
               /\ inventor_tags' = Some(tags)
               /\ parsed' = parsed @@
                      [series_code |-> SafeText(soup.series_code),
                       inventors |->
                          Some([i \in 1..Len(tags) |->
                                   Inventor(ParseNameGroup(tags[i])).obj])]
               /\ xml_pc' = "rest"
    /\ UNCHANGED <<soup, version, references, patent, NotXml>>

\* lines 79-85: _parse_name_group(None) is None, which has no items
ParseRest ==
    /\ xml_pc = "rest"
    /\ IF soup.primary_examiner = None
       THEN /\ xml_pc' = "TypeError"
            /\ UNCHANGED parsed
       ELSE /\ parsed' = parsed @@
                   [primary_examiner |-> ParseNameGroup(soup.primary_examiner[1]).name,
                    abstract |-> SafeText(soup.abstract),
                    claims |-> IF soup.claims = None THEN None
                               ELSE Some([i \in 1..Len(soup.claims[1]) |->
                                             Strip(soup.claims[1][i])]),
                    description |-> SafeText(soup.description),
                    title |-> SafeText(soup.title)]
            /\ xml_pc' = "construct"
    /\ UNCHANGED <<soup, version, references, inventor_tags, patent, NotXml>>

\* line 87
ConstructPatent ==
    /\ xml_pc = "construct"
    /\ LET made == USPatent(parsed) IN
       IF made.exc # ""
       THEN /\ xml_pc' = "ValueError(Invalid key-word argument)"
            /\ UNCHANGED patent
       ELSE /\ patent' = Some(made.obj)
            /\ xml_pc' = "returned"
    /\ UNCHANGED <<soup, version, references, inventor_tags, parsed, NotXml>>

XmlNext ==
    \/ FindRoot \/ ParsePubAppRef \/ ParseUsReferences
    \/ ParseInventors \/ ParseRest \/ ConstructPatent

InitXml == XmlInit /\ ChunkIdle /\ NsIdle /\ ClaimsIdle /\ ZipIdle /\ LaterIdle

SpecXml == InitXml /\ [][XmlNext]_vars

\* The stages of parse_xml_chunk that have not ended the call.
XmlRunning ==
    {"find_root", "pub_app_ref", "us_references", "inventors", "rest", "construct"}

\* A grant with every element parse_xml_chunk reads and no citation.
CompleteGrant(s) ==
    /\ s.root
    /\ s.publication_reference # None /\ s.application_reference # None
    /\ s.primary_examiner # None
    /\ s.references_cited \in {None, Some(<<>>)}
    /\ s.us_references_cited \in {None, Some(<<>>)}
    /\ s.applicants # None /\ s.us_applicants # None /\ s.inventors # None

\* The fields the claim says the returned record holds.
HasField(obj, name, value) == name \in DOMAIN obj /\ obj[name] = value

\* C8: for a chunk with the us-patent-grant root, a publication-reference and
\* an application-reference, parse_xml_chunk does not fail: it returns a
\* record whose patent_number, country, kind and date are those of the
\* publication-reference and whose application_number, application_country and
\* application_date are those of the application-reference.
C8_XmlRecordReturned ==
    (xml_pc \notin XmlRunning /\ CompleteGrant(soup)) =>
        /\ xml_pc = "returned"
        /\ patent # None
        /\ LET pub == soup.publication_reference[1]
               app == soup.application_reference[1]
           IN /\ HasField(patent[1], "patent_number", Some(Strip(pub.doc_number)))
              /\ HasField(patent[1], "country", Some(Strip(pub.country)))
              /\ HasField(patent[1], "kind", SafeText(pub.kind))
              /\ HasField(patent[1], "date", SafeText(pub.date))
              /\ HasField(patent[1], "application_number", Some(Strip(app.doc_number)))
              /\ HasField(patent[1], "application_country", Some(Strip(app.country)))
              /\ HasField(patent[1], "application_date", SafeText(app.date))

\* The number a version stands for: the digits of its first token, read as a
\* decimal number ("v4.3" and "v43" both stand for 43).
DigitValue(c) == (CHOOSE i \in 1..10 : Ascii[i + 3] = c) - 1
IsDigit(c) == \E i \in 1..10 : Ascii[i + 3] = c
RECURSIVE NumberOf(_, _)
NumberOf(s, acc) ==
    IF s = <<>> \/ s[1] \in Whitespace THEN acc
    ELSE IF IsDigit(s[1]) THEN NumberOf(Tail(s), 10 * acc + DigitValue(s[1]))
    ELSE NumberOf(Tail(s), acc)
VersionNumber(dtd_version) == NumberOf(dtd_version, 0)

\* The children of an element, none when the element is absent.
ChildrenOf(element) == IF element = None THEN <<>> ELSE element[1]

\* C9: the version is compared in a form without punctuation, "v4.3" and "v43"
\* giving the same key; below v4.3 the citations are those of
\* references-cited/citation, from v4.3 on those of
\* us-references-cited/us-citation.
C9_CitationRouting ==
    /\ (xml_pc # "find_root" /\ soup.root) =>
           /\ ~Contains(version, <<".">>)
           /\ VersionNumber(soup.dtd_version) = 43 => version = V43
    /\ references # None =>
           references = Some(IF VersionNumber(soup.dtd_version) < 43
                             THEN ChildrenOf(soup.references_cited)
                             ELSE ChildrenOf(soup.us_references_cited))

\* A grant written "v4.3" with citations in both lists had those of
\* us-references-cited read.
C9_Witness ==
    /\ references # None
    /\ StartsWith(soup.dtd_version, <<"v", "4", ".", "3">>)
    /\ ChildrenOf(soup.references_cited) # <<>>
    /\ ChildrenOf(soup.us_references_cited) # <<>>
    /\ references = soup.us_references_cited

\* The entries of a party list that are flagged applicant-inventor.
Flagged(element) ==
    SelectSeq(ChildrenOf(element), LAMBDA t : t.app_type = "applicant-inventor")

\* C10 as stated: in a US grant the inventors are the applicants flagged
\* applicant-inventor below v4.3 and the us-applicants from v4.3 on; in any
\* other grant they are the inventors/inventor entries, whatever the version.
C10_InventorRoutingAsStated ==
    inventor_tags # None =>
        inventor_tags = Some(IF soup.country = US
                             THEN IF VersionNumber(soup.dtd_version) < 43
                                  THEN Flagged(soup.applicants)
                                  ELSE ChildrenOf(soup.us_applicants)
                             ELSE ChildrenOf(soup.inventors))

\* C10 (amended): in a US grant the inventors are the entries flagged
\* applicant-inventor of applicants/applicant below v4.3 and of
\* us-applicants/us-applicant from v4.3 on; in any other grant they are the
\* inventors/inventor entries, whatever the version.
C10_InventorRouting ==
    inventor_tags # None =>
        inventor_tags = Some(IF soup.country = US
                             THEN IF VersionNumber(soup.dtd_version) < 43
                                  THEN Flagged(soup.applicants)
                                  ELSE Flagged(soup.us_applicants)
                             ELSE ChildrenOf(soup.inventors))

\* A US grant from v4.3 on had a flagged us-applicant read and an unflagged one
\* left out, its applicants list not being empty.
C10_Witness ==
    /\ inventor_tags # None
    /\ soup.country = US
    /\ VersionNumber(soup.dtd_version) >= 43
    /\ Len(inventor_tags[1]) = 1
    /\ Len(ChildrenOf(soup.us_applicants)) = 2
    /\ ChildrenOf(soup.applicants) # <<>>

\* The outcome of a call: exc names the exception raised ("" for none) and obj
\* is the value returned.
Raised(exc) == [exc |-> exc, obj |-> None]
Returned(obj) == [exc |-> "", obj |-> obj]

\* parse_xml_chunk (lines 64-87) as one call on a parsed chunk
parse_xml_chunk(s) ==
    IF ~s.root THEN Raised("ValueError(no patent in chunk.)")
    ELSE IF s.publication_reference = None \/ s.application_reference = None
    THEN Raised("AttributeError")
    ELSE
    LET v == NormalizedVersion(s.dtd_version)
        built == ReferencesOf(ChildrenOf(CitationList(s, v)))
        party == IF s.country = US THEN ApplicantList(s, v) ELSE s.inventors
    IN  IF \E i \in 1..Len(built) : built[i].exc # ""
        THEN Raised("ValueError(Invalid key-word argument)")
        ELSE IF party = None THEN Raised("AttributeError")
        ELSE IF s.primary_examiner = None THEN Raised("TypeError")
        ELSE
        LET tags == InventorTags(s, v)
            kwargs ==
                ParsePubRef(s.publication_reference[1])
                @@ ParseAppRef(s.application_reference[1])
                @@ [us_references |-> Some([i \in 1..Len(built) |-> built[i].obj]),
                    series_code |-> SafeText(s.series_code),
                    inventors |-> Some([i \in 1..Len(tags) |->
                                           Inventor(ParseNameGroup(tags[i])).obj]),
                    primary_examiner |-> ParseNameGroup(s.primary_examiner[1]).name,
                    abstract |-> SafeText(s.abstract),
                    claims |-> IF s.claims = None THEN None
                               ELSE Some([i \in 1..Len(s.claims[1]) |->
                                             Strip(s.claims[1][i])]),
                    description |-> SafeText(s.description),
                    title |-> SafeText(s.title)]
            made == USPatent(kwargs)
        IN IF made.exc # "" THEN Raised("ValueError(Invalid key-word argument)")
           ELSE Returned(made.obj)

(***************************************************************************)
(* parse_sgml_chunk (parse/sgml.py 48-147).                                *)
(*                                                                         *)
(* The parsed chunk holds, for every element the parser looks for, the     *)
(* element found (its text) or None, and the list find_all gives.          *)
(***************************************************************************)
\* A complete PATDOC.
SgmlDoc ==
    [cl |-> Some(<< <<"c">> >>),
     b721 |-> << [nam |-> Some([fnm |-> Some(<<"F">>), snm |-> Some(<<"S">>)]),
                  city |-> None, ctry |-> None] >>,
     b582 |-> << <<"5">> >>,
     b561 |-> <<>>,
     b210 |-> Some(<<"0", "9", " ", "1">>),
     b220 |-> Some(<<"2", "0", "0", "1">>),
     b110 |-> Some(<<"6">>),
     brfsum |-> None, b746 |-> Some(<<"E">>), b540 |-> Some(<<"t">>),
     b130 |-> Some(<<"B", "1">>), detdesc |-> None, sdoab |-> Some(<<"a">>)]

\* A chunk in which no element of a PATDOC is found.
SgmlNothing ==
    [cl |-> None, b721 |-> <<>>, b582 |-> <<>>, b561 |-> <<>>, b210 |-> None,
     b220 |-> None, b110 |-> None, brfsum |-> None, b746 |-> None,
     b540 |-> None, b130 |-> None, detdesc |-> None, sdoab |-> None]

\* text.replace(' ', '')
RemoveSpaces(s) == SelectSeq(s, LAMBDA c : c # " ")

\* PatentClassification.__init__ (patent.py lines 50-58): the keywords are
\* not looked at.
PatentClassificationDefaults ==
    [us_classification |-> None, cross_reference |-> None,
     unofficial_reference |-> None, digest_reference |-> None,
     edition_field |-> None, international_classification |-> None,
     field_of_search_class |-> None, field_of_search_subclasses |-> None]
PatentClassification(kwargs) == Returned(PatentClassificationDefaults)

\* '{}'.format(value): a str as it is, None as "None"
Format(value) == IF value = None THEN <<"N", "o", "n", "e">> ELSE value[1]

\* sgml_to_inventor (lines 101-108), the nam element being present
SgmlToInventor(tag) ==
    Inventor([name |-> Some(Format(SafeText(tag.nam[1].fnm)) \o <<" ">>
                            \o Format(SafeText(tag.nam[1].snm))),
              city |-> SafeText(tag.city),
              country |-> SafeText(tag.ctry)])

\* sgml_to_reference (lines 138-142)
SgmlToReference(tag) ==
    USReference([patent_number |-> Some(tag.dnum), issue_date |-> Some(tag.date),
                 patentee_name |-> Some(Join(<<";", " ">>,
                     [i \in 1..Len(tag.party_us) |-> Strip(tag.party_us[i])]))])

\* parse_sgml_chunk (lines 61-86)
parse_sgml_chunk(s) ==
    IF s.cl = None \/ s.b210 = None \/ s.b220 = None \/ s.b110 = None
       \/ \E i \in 1..Len(s.b721) : s.b721[i].nam = None
    THEN Raised("AttributeError")
    ELSE
    LET kwargs ==
            [claims |-> Some([i \in 1..Len(s.cl[1]) |-> Strip(s.cl[1][i])]),
             inventors |-> Some([i \in 1..Len(s.b721) |-> SgmlToInventor(s.b721[i]).obj]),
             patent_classification |->
                 Some([i \in 1..Len(s.b582) |->
                          PatentClassification(
                              [us_classification |-> Some(Strip(s.b582[i]))]).obj]),
             us_references |-> Some([i \in 1..Len(s.b561) |-> SgmlToReference(s.b561[i]).obj]),
             application_number |-> Some(RemoveSpaces(s.b210[1])),
             application_date |-> Some(RemoveSpaces(s.b220[1])),
             patent_number |-> Some(s.b110[1]),
             brief_summary |-> SafeText(s.brfsum),
             primary_examiner |-> SafeText(s.b746),
             title |-> SafeText(s.b540),
             kind |-> SafeText(s.b130),
             description |-> SafeText(s.detdesc),
             abstract |-> SafeText(s.sdoab)]
        made == USPatent(kwargs)
    IN IF made.exc # "" THEN Raised("ValueError(Invalid key-word argument)")
       ELSE Returned(made.obj)

(***************************************************************************)
(* chunk_sgml_file (parse/sgml.py 9-45) and chunk_xml_file (parse/xml.py   *)
(* 9-46) on contents given as a str that names no file.                    *)
(***************************************************************************)
\* str.splitlines(): a line ends at "\n", at "\r" or at "\r\n"
RECURSIVE SplitLines(_)
SplitLines(text) ==
    IF text = <<>> THEN <<>>
    ELSE LET ends == {i \in 1..Len(text) : text[i] \in {"\n", "\r"}}
         IN IF ends = {} THEN <<text>>
            ELSE LET e == CHOOSE i \in ends : \A j \in ends : i <= j
                     n == IF text[e] = "\r" /\ e < Len(text) /\ text[e + 1] = "\n"
                          THEN e + 1 ELSE e
                 IN <<SubSeq(text, 1, e - 1)>> \o SplitLines(Suffix(text, n))

\* The loop of lines 41-45 (sgml.py) and 41-46 (xml.py) from line i on, start_i
\* being 0-based: the chunks yielded.
RECURSIVE ChunkLoop(_, _, _, _, _)
ChunkLoop(ls, i, start, start_tag, end_tag) ==
    IF i > Len(ls) THEN <<>>
    ELSE IF StartsWith(ls[i], start_tag)
    THEN ChunkLoop(ls, i + 1, i - 1, start_tag, end_tag)
    ELSE IF StartsWith(ls[i], end_tag)
    THEN <<Join(NL, SubSeq(ls, start + 1, i))>>
         \o ChunkLoop(ls, i + 1, start, start_tag, end_tag)
    ELSE ChunkLoop(ls, i + 1, start, start_tag, end_tag)

PatdocStart == <<"<", "P", "A", "T", "D", "O", "C">>
PatdocEnd == <<"<", "/", "P", "A", "T", "D", "O", "C">>
GrantStart == <<"<", "u", "s", "-", "p", "a", "t", "e", "n", "t", "-", "g", "r", "a", "n", "t">>
GrantEnd == <<"<", "/", "u", "s", "-", "p", "a", "t", "e", "n", "t", "-", "g", "r", "a", "n", "t">>

chunk_sgml_file(contents) == ChunkLoop(SplitLines(contents), 1, 0, PatdocStart, PatdocEnd)
chunk_xml_file(contents) == ChunkLoop(SplitLines(contents), 1, 0, GrantStart, GrantEnd)

\* BeautifulSoup(chunk, 'lxml') of an XML chunk: the us-patent-grant element is
\* found when the chunk holds its start tag; the grant it opens is complete.
XmlSoup(chunk) == [BaseDoc EXCEPT !.root = Contains(chunk, GrantStart)]

\* BeautifulSoup(chunk, 'lxml') of an SGML chunk: the elements of a PATDOC are
\* found when the chunk holds its start tag.
SgmlSoup(chunk) == IF Contains(chunk, PatdocStart) THEN SgmlDoc ELSE SgmlNothing

(***************************************************************************)
(* parse_aps_chunk (parse/aps.py 148-359).                                 *)
(***************************************************************************)
\* parse_aps_into_namespaces (lines 84-108) as one call: the loop from line i
\* on, in the state st of its three local names.
RECURSIVE NsLoop(_, _, _)
NsLoop(ls, i, st) ==
    IF st.exc # "" \/ i > Len(ls) THEN st
    ELSE NsLoop(ls, i + 1,
                NsStep(st.name_spaces, st.current_namespace, st.previous_tag, ls[i]))

parse_aps_into_namespaces(ls) ==
    LET st == NsLoop(ls, 1, [name_spaces |-> <<>>, current_namespace |-> None,
                             previous_tag |-> None, exc |-> ""])
    IN IF st.exc # "" THEN Raised(st.exc) ELSE Returned(st.name_spaces)

\* The mapping tables: pairs of a tag key and the attribute it fills.
PatnMapping ==
    { <<<<"W", "K", "U">>, "patent_number">>,
      <<<<"S", "R", "C">>, "series_code">>,
      <<<<"A", "P", "N">>, "application_number">>,
      <<<<"A", "P", "T">>, "application_type">>,
      <<<<"A", "P", "D">>, "application_date">>,
      <<<<"T", "T", "L">>, "title">>,
      <<<<"E", "X", "P">>, "primary_examiner">> }
RlapMapping ==
    { <<<<"C", "O", "D">>, "parent_code">>,
      <<<<"A", "P", "N">>, "parent_application_number">>,
      <<<<"P", "S", "C">>, "parent_status_code">> }
InventorMapping ==
    { <<<<"N", "A", "M">>, "name">>,
      <<<<"C", "N", "T">>, "country">>,
      <<<<"C", "T", "Y">>, "city">>,
      <<<<"Z", "I", "P">>, "zip_code">>,
      <<<<"S", "T", "A">>, "state">> }
ClassificationMapping ==
    { <<<<"O", "C", "L">>, "us_classification">>,
      <<<<"X", "C", "L">>, "cross_reference">>,
      <<<<"U", "C", "L">>, "unofficial_reference">>,
      <<<<"D", "C", "L">>, "digest_reference">>,
      <<<<"E", "D", "F">>, "edition_field">>,
      <<<<"I", "C", "L">>, "international_classification">>,
      <<<<"F", "S", "C">>, "field_of_search_class">>,
      <<<<"F", "S", "S">>, "field_of_search_subclasses">> }
ReferenceMapping ==
    { <<<<"P", "N", "O">>, "patent_number">>,
      <<<<"I", "S", "D">>, "issue_date">>,
      <<<<"N", "A", "M">>, "patentee_name">> }

\* NameSpace.get_tags_by_key (lines 51-63)
GetTagsByKey(ns, key) == SelectSeq(ns.data, LAMBDA tag : tag.key = key)

\* _get_aps_tag_values (lines 353-359)
GetApsTagValues(ns, mapping) ==
    [attr \in {m[2] : m \in mapping} |->
        LET tags == GetTagsByKey(ns, (CHOOSE m \in mapping : m[2] = attr)[1])
        IN Some(Join(NL, [i \in 1..Len(tags) |-> tags[i].data]))]

Uppercase ==
    {"A", "B", "C", "D", "E", "F", "G", "H", "I", "J", "K", "L", "M", "N", "O",
     "P", "Q", "R", "S", "T", "U", "V", "W", "X", "Y", "Z"}
Lowercase ==
    {"a", "b", "c", "d", "e", "f", "g", "h", "i", "j", "k", "l", "m", "n", "o",
     "p", "q", "r", "s", "t", "u", "v", "w", "x", "y", "z"}

\* str.isupper()
IsUpper(s) ==
    /\ \E i \in 1..Len(s) : s[i] \in Uppercase
    /\ \A i \in 1..Len(s) : s[i] \notin Lowercase

\* The paragraphs joined as they are, a heading like any other.
AsParagraphsPlain(ns) ==
    LET paragraph_tags == SelectSeq(ns.data, IsParagraph)
    IN Join(NL, [i \in 1..Len(paragraph_tags) |-> paragraph_tags[i].data])

\* NameSpace.as_paragraphs (lines 45-49)
AsParagraphs(ns) ==
    LET paragraph_tags == SelectSeq(ns.data, IsParagraph)
    IN Join(NL, [i \in 1..Len(paragraph_tags) |->
                    IF IsUpper(paragraph_tags[i].data)
                    THEN paragraph_tags[i].data \o <<" ">>
                    ELSE paragraph_tags[i].data])

\* _get_aps_claims (lines 314-332) as one call: the loop from start on
RECURSIVE ClaimsLoop(_, _)
ClaimsLoop(data, start) ==
    IF FirstParagraph(data, start) = None THEN <<>>
    ELSE LET first_p_i == IndexOf(data, FirstParagraph(data, start)[1])
             claim == JoinData(TakeParagraphs(Suffix(data, first_p_i)))
         IN <<claim>> \o ClaimsLoop(data, NextStart(first_p_i, claim))

\* The Tags of a namespace as objects, each with its identity.
WithIds(data) ==
    [i \in 1..Len(data) |-> [id |-> i, key |-> data[i].key, data |-> data[i].data]]

GetApsClaims(ns) == ClaimsLoop(WithIds(ns.data), 0)

ParagraphNames ==
    { <<<<"A", "B", "S", "T">>, "abstract">>, <<<<"B", "S", "U", "M">>, "brief_summary">>,
      <<<<"D", "E", "T", "D">>, "description">>, <<<<"D", "C", "L", "M">>, "design_claims">> }
RLAP == <<"R", "L", "A", "P">>
CLAS == <<"C", "L", "A", "S">>
UREF == <<"U", "R", "E", "F">>
CLMS == <<"C", "L", "M", "S">>

\* A list attribute that keeps only the newest instance.
KeepNewestInstance(all_values, attr, new_instance) ==
    [a \in {attr} |-> Some(<<new_instance>>)] @@ all_values

\* lines 209-214: the instance joins the list of its attribute, which is
\* made when the attribute is not there yet
AccumulateInstance(all_values, attr, new_instance) ==
    IF attr \in DOMAIN all_values
    THEN [all_values EXCEPT ![attr] = Some(Append(@[1], new_instance))]
    ELSE [a \in {attr} |-> Some(<<new_instance>>)] @@ all_values

\* lines 195-218: the body of the loop for one namespace
ValuesStep(ns, all_values) ==
    LET list_attr == IF ns.name = INVT THEN "inventors" ELSE "us_references"
        new_instance == IF ns.name = INVT
                        THEN Inventor(GetApsTagValues(ns, InventorMapping)).obj
                        ELSE USReference(GetApsTagValues(ns, ReferenceMapping)).obj
    IN IF ns.name = PATN THEN GetApsTagValues(ns, PatnMapping) @@ all_values
       ELSE IF ns.name = RLAP THEN GetApsTagValues(ns, RlapMapping) @@ all_values
       ELSE IF \E p \in ParagraphNames : p[1] = ns.name
       THEN LET attr == (CHOOSE p \in ParagraphNames : p[1] = ns.name)[2]
            IN [a \in {attr} |-> Some(AsParagraphs(ns))] @@ all_values
       ELSE IF ns.name = CLAS
       THEN [patent_classification |->
                Some(PatentClassification(
                         GetApsTagValues(ns, ClassificationMapping)).obj)]
            @@ all_values
       ELSE IF ns.name \in {INVT, UREF}
       THEN AccumulateInstance(all_values, list_attr, new_instance)
       ELSE IF ns.name = CLMS
       THEN [claims |-> Some(GetApsClaims(ns))] @@ all_values
       ELSE all_values

\* lines 193-218: the loop over the namespaces from the i-th on
RECURSIVE ValuesLoop(_, _, _)
ValuesLoop(nss, i, all_values) ==
    IF i > Len(nss) THEN all_values
    ELSE ValuesLoop(nss, i + 1, ValuesStep(nss[i], all_values))

\* parse_aps_chunk (lines 160-220)
parse_aps_chunk(chunk) ==
    LET namespaces == parse_aps_into_namespaces(chunk)
    IN IF namespaces.exc # "" THEN Raised(namespaces.exc)
       ELSE LET made == USPatent(ValuesLoop(namespaces.obj, 1, <<>>))
            IN IF made.exc # "" THEN Raised("ValueError(Invalid key-word argument)")
               ELSE Returned(made.obj)

(***************************************************************************)
(* get_patents_from_zip (fetch/bulk_data.py 85-137).                       *)
(*                                                                         *)
(* unzipped is the sequence of the archive's members in the order of the   *)
(* dict, each [name, file], file being the decoded text of the member.     *)
(* pending holds the chunks the splitter has still to yield.               *)
(***************************************************************************)
\* members of an archive
MaxMembers == 2

\* line 118: the characters that are sniffed for the header
SniffLength == 200

Digits == {"0", "1", "2", "3", "4", "5", "6", "7", "8", "9"}

\* The prefixes of the pattern of line 106, in the order of its alternation.
NamePrefixes == <<<<"p", "g">>, <<"p", "f", "t", "a", "p", "s">>, <<"i", "p", "g">>>>

\* (?:pg|pftaps|ipg)\d+ matches at place k of the name
PrefixAt(name, k) ==
    \E p \in 1..Len(NamePrefixes) :
        /\ StartsWith(Suffix(name, k - 1), NamePrefixes[p])
        /\ k + Len(NamePrefixes[p]) <= Len(name)
        /\ name[k + Len(NamePrefixes[p])] \in Digits

\* lines 106-110: re.search(r'.*((?:pg|pftaps|ipg)\d+.*)', name).  The leading
\* .* is greedy, so the group starts at the last place where a prefix and a
\* digit match.  None when nothing matches.
CleanedName(name) ==
    LET at == {k \in 1..Len(name) : PrefixAt(name, k)}
    IN IF at = {} THEN None
       ELSE Some(Suffix(name, (CHOOSE k \in at : \A j \in at : k >= j) - 1))

GrantV4 == <<"u", "s", "-", "p", "a", "t", "e", "n", "t", "-", "g", "r", "a", "n", "t", "-", "v", "4">>

\* line 118: re.search(r'us-patent-grant-v4\d', file[:200]) is not None
IsV4(file) ==
    LET head == Prefix(file, SniffLength)
    IN \E i \in 1..(Len(head) - Len(GrantV4)) :
           /\ SubSeq(head, i, i + Len(GrantV4) - 1) = GrantV4
           /\ head[i + Len(GrantV4)] \in Digits

\* lines 114-127: the chunker and parser chosen for a cleaned name and a file,
\* None when the member is ignored
Dialect(cleaned_name, file) ==
    IF StartsWith(cleaned_name, <<"p", "f", "t", "a", "p", "s">>) THEN "aps"
    ELSE IF StartsWith(cleaned_name, <<"p", "g">>) /\ ~IsV4(file) THEN "sgml"
    ELSE IF StartsWith(cleaned_name, <<"i", "p", "g">>) \/ IsV4(file) THEN "xml"
    ELSE "ignored"

\* line 129: splitter(file), file being a str
Split(dialect, file) ==
    IF dialect = "aps" THEN chunk_aps_file_str(file)
    ELSE IF dialect = "sgml" THEN chunk_sgml_file(file)
    ELSE chunk_xml_file(file)

\* line 131: parser(chunk)
Parse(dialect, chunk) ==
    IF dialect = "aps" THEN parse_aps_chunk(chunk)
    ELSE IF dialect = "sgml" THEN parse_sgml_chunk(SgmlSoup(chunk))
    ELSE parse_xml_chunk(XmlSoup(chunk))

\* line 132: the exceptions that except ParseError catches.  ParseError is a
\* class of its own, the kind of failure the spec calls MalformedInputError;
\* ValueError, AttributeError and TypeError are not among its subclasses.
IsParseError(exc) == exc = "ParseError"

\* The names of members.
MemberNames ==
    { <<"p", "f", "t", "a", "p", "s", "1", ".", "t", "x", "t">>,
      <<"i", "p", "g", "1", ".", "x", "m", "l">>,
      <<"p", "g", "1", ".", "x", "m", "l">>,
      <<"n", "o", "t", "e", "s", ".", "t", "x", "t">> }

\* The lines the files are made of.
DoctypeV4 == <<"<", "!", "D", "O", "C", "T", "Y", "P", "E", " ", "u", "s", "-", "p", "a", "t", "e", "n", "t", "-", "g", "r", "a", "n", "t", "-", "v", "4", "2", ".", "d", "t", "d", ">">>
GrantOpen == <<"<", "u", "s", "-", "p", "a", "t", "e", "n", "t", "-", "g", "r", "a", "n", "t", " ", "v", "4", ".", "2", ">">>
GrantClose == <<"<", "/", "u", "s", "-", "p", "a", "t", "e", "n", "t", "-", "g", "r", "a", "n", "t", ">">>
PatdocOpen == <<"<", "P", "A", "T", "D", "O", "C", ">">>
PatdocClose == <<"<", "/", "P", "A", "T", "D", "O", "C", ">">>
LongComment == [i \in 1..SniffLength |-> "x"]

\* The texts of members.
MemberFiles ==
    { Join(NL, <<DoctypeV4, GrantOpen, GrantClose>>),
      Join(NL, <<DoctypeV4, GrantClose, GrantOpen, GrantClose>>),
      Join(NL, <<GrantOpen, GrantClose>>),
      Join(NL, <<LongComment, DoctypeV4, GrantOpen, GrantClose>>),
      Join(NL, <<PatdocOpen, PatdocClose>>),
      Join(NL, <<PatdocClose, PatdocOpen, PatdocClose>>),
      FileText(<< <<"H">>, PATN, <<"W", "K", "U", " ", " ", "1">> >>),
      <<>> }

Members == [name : MemberNames, file : MemberFiles]

ZipInit ==
    /\ unzipped \in {a \in SeqsUpTo(Members, MaxMembers) :
                        \A i, j \in 1..Len(a) : a[i].name = a[j].name => i = j}
    /\ member_i = 0 /\ splitter = "" /\ pending = <<>>
    /\ patents = <<>> /\ n_failures = 0
    /\ zip_pc = "members"

NotZip == <<chunkVars, nsVars, claimsVars, xmlVars, laterVars>>

\* lines 105-129: the next member is taken; it is skipped, or its dialect is
\* chosen and its file is handed to the splitter
NextMember ==
    /\ zip_pc = "members"
    /\ member_i < Len(unzipped)
    /\ member_i' = member_i + 1
    /\ LET name == unzipped[member_i + 1].name
           file == unzipped[member_i + 1].file
           cleaned_name == CleanedName(name)
       IN IF cleaned_name = None \/ Dialect(cleaned_name[1], file) = "ignored"
          THEN UNCHANGED <<splitter, pending, zip_pc>>
          ELSE /\ splitter' = Dialect(cleaned_name[1], file)
               /\ pending' = Split(Dialect(cleaned_name[1], file), file)
               /\ zip_pc' = "chunks"
    /\ UNCHANGED <<unzipped, patents, n_failures, NotZip>>

\* lines 129-135: the next chunk is parsed; a ParseError is counted, any other
\* exception leaves the function
ParseChunk ==
    /\ zip_pc = "chunks"
    /\ pending # <<>>
    /\ LET result == Parse(splitter, Head(pending)) IN
       IF result.exc = ""
       THEN /\ patents' = Append(patents, result.obj)
            /\ pending' = Tail(pending)
            /\ UNCHANGED <<n_failures, zip_pc>>
       ELSE IF IsParseError(result.exc)
       THEN /\ n_failures' = n_failures + 1
            /\ pending' = Tail(pending)
            /\ UNCHANGED <<patents, zip_pc>>
       ELSE /\ zip_pc' = result.exc
            /\ UNCHANGED <<patents, n_failures, pending>>
    /\ UNCHANGED <<unzipped, member_i, splitter, NotZip>>

\* line 129: the splitter is exhausted
EndOfMember ==
    /\ zip_pc = "chunks"
    /\ pending = <<>>
    /\ zip_pc' = "members"
    /\ UNCHANGED <<unzipped, member_i, splitter, pending, patents, n_failures, NotZip>>

\* line 137
ReturnPatents ==
    /\ zip_pc = "members"
    /\ member_i = Len(unzipped)
    /\ zip_pc' = "returned"
    /\ UNCHANGED <<unzipped, member_i, splitter, pending, patents, n_failures, NotZip>>

ZipNext == NextMember \/ ParseChunk \/ EndOfMember \/ ReturnPatents

InitZip == ZipInit /\ ChunkIdle /\ NsIdle /\ ClaimsIdle /\ XmlIdle /\ LaterIdle

SpecZip == InitZip /\ [][ZipNext]_vars

\* The parse of a chunk fails structurally: a malformed legacy field structure,
\* or an SGML/XML chunk without its root element.
StructuralFailure(dialect, chunk) ==
    \/ dialect = "aps" /\ parse_aps_chunk(chunk).exc \in {"ParseError", "AttributeError"}
    \/ dialect = "xml" /\ ~Contains(chunk, GrantStart)
    \/ dialect = "sgml" /\ ~Contains(chunk, PatdocStart)

\* C1: a document whose parse fails structurally adds one to the failure
\* count and the pass goes on with the chunks and members that remain, the
\* records parsed so far being kept; the failure does not end the pass.
C1_StructuralFailureCounted ==
    [][(/\ zip_pc = "chunks" /\ pending # <<>>
        /\ StructuralFailure(splitter, Head(pending)))
       => (/\ n_failures' = n_failures + 1
           /\ patents' = patents
           /\ pending' = Tail(pending)
           /\ zip_pc' = "chunks")]_vars

\* The dialect the claim gives a member by its name and, for pg*, its header.
DialectByName(name, file) ==
    IF StartsWith(name, <<"p", "f", "t", "a", "p", "s">>) THEN "aps"
    ELSE IF StartsWith(name, <<"i", "p", "g">>) THEN "xml"
    ELSE IF StartsWith(name, <<"p", "g">>) THEN (IF IsV4(file) THEN "xml" ELSE "sgml")
    ELSE "ignored"

\* C2: a member named pftaps* is chunked and parsed as legacy, one named ipg*
\* as XML whatever its content, one named pg* as XML when its first 200
\* characters hold a us-patent-grant-v4 header and as SGML otherwise; any
\* other member is skipped and gives neither records nor failures.
C2_DialectByName ==
    [][(zip_pc = "members" /\ member_i < Len(unzipped)) =>
        LET m == unzipped[member_i + 1]
            d == DialectByName(m.name, m.file)
        IN IF d = "ignored"
           THEN zip_pc' = "members" /\ patents' = patents /\ n_failures' = n_failures
           ELSE zip_pc' = "chunks" /\ splitter' = d /\ pending' = Split(d, m.file)]_vars

(***************************************************************************)
(* chunk_sgml_file (parse/sgml.py 9-45) and chunk_xml_file (parse/xml.py   *)
(* 9-46), one line of the contents at a time.                              *)
(***************************************************************************)
\* lines of the contents handed to chunk_sgml_file and chunk_xml_file
MaxContentLines == 4

\* Lines an SGML file and an XML file are made of.
SgmlLines ==
    { <<"<", "P", "A", "T", "D", "O", "C", ">">>,
      <<"<", "/", "P", "A", "T", "D", "O", "C", ">">>,
      <<" ", "<", "/", "P", "A", "T", "D", "O", "C", ">">>,      \* an end tag that does not start its line
      <<"<", "B", "1", "1", "0", ">">> }
XmlLines ==
    { <<"<", "u", "s", "-", "p", "a", "t", "e", "n", "t", "-", "g", "r", "a", "n", "t", " ", "a", ">">>,
      <<"<", "/", "u", "s", "-", "p", "a", "t", "e", "n", "t", "-", "g", "r", "a", "n", "t", ">">>,
      <<"<", "?", "x", "m", "l", "?", ">">>,
      <<"<", "c", "l", "a", "i", "m", "s", ">">> }

\* The contents handed over: a str that names no file.
TaggedFiles ==
    {[dialect |-> "sgml", text |-> FileText(ls)] : ls \in SeqsUpTo(SgmlLines, MaxContentLines)}
    \cup {[dialect |-> "xml", text |-> FileText(ls)] : ls \in SeqsUpTo(XmlLines, MaxContentLines)}

\* start_tag and end_tag (sgml.py 35-36 with chunk_on = 'PATDOC', xml.py 37-38)
StartTag(dialect) == IF dialect = "sgml" THEN PatdocStart ELSE GrantStart
EndTag(dialect) == IF dialect = "sgml" THEN PatdocEnd ELSE GrantEnd

\* '\n'.join(lines[start_i:i + 1]), start_i and i counted from 0
YieldedSpanWithoutEndTag(ls, start, i) == Join(NL, SubSeq(ls, start + 1, i))
YieldedSpan(ls, start, i) == Join(NL, SubSeq(ls, start + 1, i + 1))

TagInit ==
    /\ doc_file \in TaggedFiles
    /\ doc_lines = <<>> /\ doc_i = 0 /\ doc_start_i = 0 /\ yielded = <<>>
    /\ tag_pc = "read"

NotTag == <<earlierVars, sgmlVars, ctorVars, textVars, numberVars, dateVars, storeVars, fetchVars, apsVars, downloadVars, proxyVars>>

\* sgml.py 39-40, xml.py 35 and 41: lines = contents.splitlines(); start_i = 0
SplitContents ==
    /\ tag_pc = "read"
    /\ doc_lines' = SplitLines(doc_file.text)
    /\ doc_i' = 0 /\ doc_start_i' = 0
    /\ tag_pc' = "loop"
    /\ UNCHANGED <<doc_file, yielded, NotTag>>

\* sgml.py 41-45, xml.py 42-46: one pass of the loop over the lines
ScanLine ==
    /\ tag_pc = "loop" /\ doc_i < Len(doc_lines)
    /\ LET line == doc_lines[doc_i + 1]
       IN IF StartsWith(line, StartTag(doc_file.dialect))
          THEN doc_start_i' = doc_i /\ yielded' = yielded
          ELSE IF StartsWith(line, EndTag(doc_file.dialect))
          THEN /\ yielded' = Append(yielded, YieldedSpan(doc_lines, doc_start_i, doc_i))
               /\ doc_start_i' = doc_start_i
          ELSE doc_start_i' = doc_start_i /\ yielded' = yielded
    /\ doc_i' = doc_i + 1
    /\ UNCHANGED <<doc_file, doc_lines, tag_pc, NotTag>>

\* the lines are exhausted and the generator ends
TagDone ==
    /\ tag_pc = "loop" /\ doc_i = Len(doc_lines)
    /\ tag_pc' = "done"
    /\ UNCHANGED <<doc_file, doc_lines, doc_i, doc_start_i, yielded, NotTag>>

TagNext == SplitContents \/ ScanLine \/ TagDone

InitTag == TagInit /\ EarlierIdle /\ SgmlIdle /\ CtorIdle /\ TextIdle /\ NumberIdle /\ DateIdle /\ StoreIdle /\ FetchIdle /\ ApsIdle /\ DownloadIdle /\ ProxyIdle

SpecTag == InitTag /\ [][TagNext]_vars

\* The start-tag lines and the end-tag lines of the contents, counted from 1.
IsStartLine(i) == StartsWith(doc_lines[i], StartTag(doc_file.dialect))
IsEndLine(i) == ~IsStartLine(i) /\ StartsWith(doc_lines[i], EndTag(doc_file.dialect))
EndLines == SortedSeq({i \in 1..Len(doc_lines) : IsEndLine(i)})
StartsBefore(i) == {s \in 1..(i - 1) : IsStartLine(s)}
MostRecentStart(i) == CHOOSE s \in StartsBefore(i) : \A t \in StartsBefore(i) : t <= s

\* The lines s..e form one document: a start-tag line, its end-tag line and
\* no tag line between the two.
Delimits(s, e) ==
    /\ s < e /\ IsStartLine(s) /\ IsEndLine(e)
    /\ \A j \in (s + 1)..(e - 1) : ~IsStartLine(j) /\ ~IsEndLine(j)

SgmlTexts == {None, Some(<<" ", "x">>)}

\* What BeautifulSoup finds in a chunk: PATDOCs in which each of the six
\* optional elements is there or not, a chunk with no element at all, and
\* PATDOCs without their claims or without their number.
SgmlChunks ==
    {[SgmlDoc EXCEPT !.brfsum = a, !.b746 = b, !.b540 = c, !.b130 = d,
                     !.detdesc = e, !.sdoab = f] :
        a \in SgmlTexts, b \in SgmlTexts, c \in SgmlTexts, d \in SgmlTexts,
        e \in SgmlTexts, f \in SgmlTexts}
    \cup {SgmlNothing, [SgmlDoc EXCEPT !.cl = None], [SgmlDoc EXCEPT !.b110 = None]}

\* The elements lines 62-70 call .text or .find on.
SgmlRequiredFound(s) ==
    /\ s.cl # None /\ s.b210 # None /\ s.b220 # None /\ s.b110 # None
    /\ \A i \in 1..Len(s.b721) : s.b721[i].nam # None

\* lines 74-81: check_if_none, the key of parsed and the element it is read from
CheckIfNone(s) ==
    [brief_summary |-> s.brfsum, primary_examiner |-> s.b746, title |-> s.b540,
     kind |-> s.b130, description |-> s.detdesc, abstract |-> s.sdoab]

\* dict.update
DictUpdate(d, other) ==
    [k \in DOMAIN d \cup DOMAIN other |-> IF k \in DOMAIN other THEN other[k] ELSE d[k]]

SgmlInit ==
    /\ sgml_soup \in SgmlChunks
    /\ sgml_parsed = <<>> /\ sgml_patent = None /\ sgml_pc = "parsed"

NotSgml == <<earlierVars, tagVars, ctorVars, textVars, numberVars, dateVars, storeVars, fetchVars, apsVars, downloadVars, proxyVars>>

\* lines 61-72: the dict of the fields whose elements must be there
BuildParsed ==
    /\ sgml_pc = "parsed"
    /\ IF SgmlRequiredFound(sgml_soup)
       THEN /\ sgml_parsed' =
                   [claims |-> Some([i \in 1..Len(sgml_soup.cl[1]) |-> Strip(sgml_soup.cl[1][i])]),
                    inventors |-> Some([i \in 1..Len(sgml_soup.b721) |->
                                           SgmlToInventor(sgml_soup.b721[i]).obj]),
                    patent_classification |->
                        Some([i \in 1..Len(sgml_soup.b582) |->
                                 PatentClassification(
                                     [us_classification |-> Some(Strip(sgml_soup.b582[i]))]).obj]),
                    us_references |-> Some([i \in 1..Len(sgml_soup.b561) |->
                                               SgmlToReference(sgml_soup.b561[i]).obj]),
                    application_number |-> Some(RemoveSpaces(sgml_soup.b210[1])),
                    application_date |-> Some(RemoveSpaces(sgml_soup.b220[1])),
                    patent_number |-> Some(sgml_soup.b110[1])]
            /\ sgml_pc' = "check_if_none"
       ELSE sgml_parsed' = sgml_parsed /\ sgml_pc' = "AttributeError"
    /\ UNCHANGED <<sgml_soup, sgml_patent, NotSgml>>

\* lines 74-85: safe_text on each optional element, the result put into parsed
CheckForNone ==
    /\ sgml_pc = "check_if_none"
    /\ LET check_if_none == CheckIfNone(sgml_soup)
           checked_for_none == [name \in DOMAIN check_if_none |-> SafeText(check_if_none[name])]
       IN sgml_parsed' = DictUpdate(sgml_parsed, checked_for_none)
    /\ sgml_pc' = "construct"
    /\ UNCHANGED <<sgml_soup, sgml_patent, NotSgml>>

\* line 86: return USPatent(**parsed)
ConstructSgmlPatent ==
    /\ sgml_pc = "construct"
    /\ LET made == USPatent(sgml_parsed)
       IN IF made.exc # ""
          THEN sgml_patent' = sgml_patent /\ sgml_pc' = "ValueError(Invalid key-word argument)"
          ELSE sgml_patent' = Some(made.obj) /\ sgml_pc' = "returned"
    /\ UNCHANGED <<sgml_soup, sgml_parsed, NotSgml>>

SgmlNext == BuildParsed \/ CheckForNone \/ ConstructSgmlPatent

InitSgml == SgmlInit /\ EarlierIdle /\ TagIdle /\ CtorIdle /\ TextIdle /\ NumberIdle /\ DateIdle /\ StoreIdle /\ FetchIdle /\ ApsIdle /\ DownloadIdle /\ ProxyIdle

SpecSgml == InitSgml /\ [][SgmlNext]_vars

\* The stages of parse_sgml_chunk that have not ended the call.
SgmlRunning == {"parsed", "check_if_none", "construct"}

\* C12: a chunk in which optional elements (title, abstract, description,
\* brief summary, primary examiner, kind) are missing is parsed without an
\* exception and a record is returned, in which each field whose element is
\* missing is None.
C12_PartialSgmlReturned ==
    (sgml_pc \notin SgmlRunning /\ SgmlRequiredFound(sgml_soup)) =>
        /\ sgml_pc = "returned"
        /\ sgml_patent # None
        /\ \A name \in DOMAIN CheckIfNone(sgml_soup) :
               CheckIfNone(sgml_soup)[name] = None =>
                   HasField(sgml_patent[1], name, None)

(***************************************************************************)
(* The constructors of the record types (parse/patent.py).                 *)
(***************************************************************************)
\* Keywords a constructor is called with: fields of the record types, a name
\* that is a field of none of them and a name the class defines.
KeywordNames == {"patent_number", "name", "us_classification", "typo", "__init__"}
Keywords == UNION {[K -> {Some(<<"v">>)}] : K \in SUBSET KeywordNames}
RecordTypes == {"USPatent", "Inventor", "PatentClassification", "USReference"}

\* The fields of a record type: the attributes its __init__ sets.
Fields(cls) ==
    IF cls = "USPatent" THEN DOMAIN USPatentDefaults
    ELSE IF cls = "Inventor" THEN DOMAIN InventorDefaults
    ELSE IF cls = "PatentClassification" THEN DOMAIN PatentClassificationDefaults
    ELSE DOMAIN USReferenceDefaults

CtorInit ==
    /\ ctor \in [cls : RecordTypes, kwargs : Keywords]
    /\ constructed = None /\ ctor_pc = "call"

NotCtor == <<earlierVars, tagVars, sgmlVars, textVars, numberVars, dateVars, storeVars, fetchVars, apsVars, downloadVars, proxyVars>>

\* What a call leaves: the instance, or the exception __init__ raised.
Constructing(made) ==
    /\ IF made.exc = ""
       THEN constructed' = Some(made.obj) /\ ctor_pc' = "returned"
       ELSE constructed' = constructed /\ ctor_pc' = made.exc
    /\ UNCHANGED <<ctor, NotCtor>>

\* USPatent(**kwargs), lines 137-162
NewUSPatent ==
    ctor_pc = "call" /\ ctor.cls = "USPatent" /\ Constructing(USPatent(ctor.kwargs))

\* Inventor(**kwargs), lines 8-15
NewInventor ==
    ctor_pc = "call" /\ ctor.cls = "Inventor" /\ Constructing(Inventor(ctor.kwargs))

\* PatentClassification(**kwargs), lines 50-58
NewPatentClassification ==
    /\ ctor_pc = "call" /\ ctor.cls = "PatentClassification"
    /\ Constructing(PatentClassification(ctor.kwargs))

\* USReference(**kwargs), lines 96-101
NewUSReference ==
    ctor_pc = "call" /\ ctor.cls = "USReference" /\ Constructing(USReference(ctor.kwargs))

CtorNext == NewUSPatent \/ NewInventor \/ NewPatentClassification \/ NewUSReference

InitCtor == CtorInit /\ EarlierIdle /\ TagIdle /\ SgmlIdle /\ TextIdle /\ NumberIdle /\ DateIdle /\ StoreIdle /\ FetchIdle /\ ApsIdle /\ DownloadIdle /\ ProxyIdle

SpecCtor == InitCtor /\ [][CtorNext]_vars

\* C13: a constructor of any of the four record types called with a name
\* that is not a field of the type raises, and no record is produced.
C13_UnknownFieldRaises ==
    (ctor_pc \notin {"idle", "call"} /\ \E key \in DOMAIN ctor.kwargs : key \notin Fields(ctor.cls)) =>
        ctor_pc = "ValueError" /\ constructed = None

(***************************************************************************)
(* The sequences of a patent record.                                       *)
(***************************************************************************)
\* The fields of a patent record that hold sequences.
SequenceFields == {"us_references", "inventors", "claims"}

MaxPatents == 2

LowerLetters == <<"a", "b", "c", "d", "e", "f", "g", "h", "i", "j", "k", "l", "m", "n", "o", "p", "q", "r", "s", "t", "u", "v", "w", "x", "y", "z">>
UpperLetters == <<"A", "B", "C", "D", "E", "F", "G", "H", "I", "J", "K", "L", "M", "N", "O", "P", "Q", "R", "S", "T", "U", "V", "W", "X", "Y", "Z">>

\* str.upper()
UpperChar(c) ==
    IF \E i \in 1..Len(LowerLetters) : LowerLetters[i] = c
    THEN UpperLetters[CHOOSE i \in 1..Len(LowerLetters) : LowerLetters[i] = c]
    ELSE c
Upper(s) == [i \in 1..Len(s) |-> UpperChar(s[i])]

\* s.replace(a, b) for one-character a and b
ReplaceChar(s, a, b) == [i \in 1..Len(s) |-> IF s[i] = a THEN b ELSE s[i]]

\* The places where sep is found in s.
Occurrences(s, sep) ==
    {i \in 1..(Len(s) - Len(sep) + 1) : SubSeq(s, i, i + Len(sep) - 1) = sep}

\* s.split(sep)
RECURSIVE SplitOn(_, _)
SplitOn(s, sep) ==
    LET at == Occurrences(s, sep)
    IN IF at = {} THEN <<s>>
       ELSE LET i == CHOOSE k \in at : \A j \in at : k <= j
            IN <<SubSeq(s, 1, i - 1)>> \o SplitOn(Suffix(s, i + Len(sep) - 1), sep)

\* s.split(sep, 1)
SplitOnce(s, sep) ==
    LET at == Occurrences(s, sep)
    IN IF at = {} THEN <<s>>
       ELSE LET i == CHOOSE k \in at : \A j \in at : k <= j
            IN <<SubSeq(s, 1, i - 1), Suffix(s, i + Len(sep) - 1)>>

CRLF == <<"\r", "\n">>
ColonSpace == <<":", " ">>
NoneText == <<"N", "o", "n", "e">>

\* The names of the attributes of a patent, as text.
AttrName ==
    [patent_number |-> <<"p", "a", "t", "e", "n", "t", "_", "n", "u", "m", "b", "e", "r">>,
     title |-> <<"t", "i", "t", "l", "e">>,
     abstract |-> <<"a", "b", "s", "t", "r", "a", "c", "t">>,
     series_code |-> <<"s", "e", "r", "i", "e", "s", "_", "c", "o", "d", "e">>,
     application_number |-> <<"a", "p", "p", "l", "i", "c", "a", "t", "i", "o", "n", "_", "n", "u", "m", "b", "e", "r">>,
     application_type |-> <<"a", "p", "p", "l", "i", "c", "a", "t", "i", "o", "n", "_", "t", "y", "p", "e">>,
     application_date |-> <<"a", "p", "p", "l", "i", "c", "a", "t", "i", "o", "n", "_", "d", "a", "t", "e">>,
     brief_summary |-> <<"b", "r", "i", "e", "f", "_", "s", "u", "m", "m", "a", "r", "y">>,
     description |-> <<"d", "e", "s", "c", "r", "i", "p", "t", "i", "o", "n">>,
     design_claims |-> <<"d", "e", "s", "i", "g", "n", "_", "c", "l", "a", "i", "m", "s">>]

\* attrs, the attributes to save (a parameter of format_patent_as_lines)
attrs == <<"patent_number", "title", "abstract">>

\* lines 164-181 of bulk_download.py
format_patent_as_lines(attributes, p) ==
    LET claims_of == p.claims[1]
        refs == p.us_references[1]
    IN <<<<"P", "A", "T", "E", "N", "T">>>>
       \o [i \in 1..Len(attributes) |->
              ReplaceChar(Upper(AttrName[attributes[i]]), "_", " ") \o ColonSpace
              \o Format(p[attributes[i]])]
       \o <<<<"C", "L", "A", "I", "M", "S", ":", " ">> \o (IF claims_of # <<>> THEN Join(<<" ">>, claims_of) ELSE NoneText),
            <<"R", "E", "F", "E", "R", "E", "N", "C", "E", "S", ":", " ">> \o (IF refs # <<>>
                   THEN Join(<<";">>, [i \in 1..Len(refs) |-> refs[i].patent_number[1]])
                   ELSE NoneText),
            <<>>>>

\* lines 79-86 of zip_to_sqlite.py, the contents being a str
load_patents(file_contents) ==
    LET split == IF Contains(file_contents, CRLF)
                 THEN SplitOn(file_contents, <<"P", "A", "T", "E", "N", "T", "\r", "\n">>)
                 ELSE SplitOn(file_contents, <<"P", "A", "T", "E", "N", "T", "\n">>)
    IN IF split[1] = <<>> THEN Tail(split) ELSE split

\* keys (lines 101-114)
keys ==
    <<<<"P", "A", "T", "E", "N", "T", " ", "N", "U", "M", "B", "E", "R">>,
      <<"S", "E", "R", "I", "E", "S", " ", "C", "O", "D", "E">>,
      <<"A", "P", "P", "L", "I", "C", "A", "T", "I", "O", "N", " ", "N", "U", "M", "B", "E", "R">>,
      <<"A", "P", "P", "L", "I", "C", "A", "T", "I", "O", "N", " ", "T", "Y", "P", "E">>,
      <<"A", "P", "P", "L", "I", "C", "A", "T", "I", "O", "N", " ", "D", "A", "T", "E">>,
      <<"T", "I", "T", "L", "E">>,
      <<"A", "B", "S", "T", "R", "A", "C", "T">>,
      <<"B", "R", "I", "E", "F", " ", "S", "U", "M", "M", "A", "R", "Y">>,
      <<"D", "E", "S", "C", "R", "I", "P", "T", "I", "O", "N">>,
      <<"C", "L", "A", "I", "M", "S">>,
      <<"R", "E", "F", "E", "R", "E", "N", "C", "E", "S">>,
      <<"D", "E", "S", "I", "G", "N", " ", "C", "L", "A", "I", "M", "S">>>>

\* any(line.startswith('{}: '.format(k)) for k in keys)
StartsWithKey(line) ==
    \E k \in 1..Len(keys) : StartsWith(line, keys[k] \o ColonSpace)

\* lines 115-122: the loop over the lines from line i on; the dict maps a key
\* to the list of its data, None being the key of what comes before any key
RECURSIVE ParsePatentLoop(_, _, _, _)
ParsePatentLoop(ls, i, current_key, d) ==
    IF i > Len(ls) THEN d
    ELSE LET hit == StartsWithKey(ls[i])
             pair == SplitOnce(ls[i], ColonSpace)
             key == IF hit THEN pair[1] ELSE current_key
             data == IF hit THEN pair[2] ELSE ls[i]
             old == IF key \in DOMAIN d THEN d[key] ELSE <<>>
         IN ParsePatentLoop(ls, i + 1, key,
                [k \in DOMAIN d \cup {key} |-> IF k = key THEN Append(old, data) ELSE d[k]])

REFERENCES == <<"R", "E", "F", "E", "R", "E", "N", "C", "E", "S">>

\* lines 115-126
parse_patent(patent_str) ==
    LET lists == ParsePatentLoop(SplitLines(patent_str), 1, None, <<>>)
        joined == [k \in DOMAIN lists |-> Join(NL, lists[k])]
        refs == IF REFERENCES \in DOMAIN joined THEN joined[REFERENCES] ELSE <<>>
    IN [k \in DOMAIN joined \cup {REFERENCES} |->
           IF k = REFERENCES THEN SplitOn(Strip(refs), <<";">>) ELSE joined[k]]

\* Patents handed to the listener: the text of the title and of the abstract,
\* the claims and the references vary.
Titles == {None, Some(<<"t">>), Some(<<"A", " ", "P", "A", "T", "E", "N", "T">>)}
Abstracts == {None, Some(<<"a", "\n", "b">>), Some(<<"x", "\n", "T", "I", "T", "L", "E", ":", " ", "y">>)}
ClaimLists == {<<>>, <<<<"c">>, <<"d">>>>}
ReferenceLists ==
    {<<>>, <<[USReferenceDefaults EXCEPT !.patent_number = Some(<<"1">>)],
             [USReferenceDefaults EXCEPT !.patent_number = Some(<<"D", "2">>)]>>}
TextPatents ==
    {[USPatentDefaults EXCEPT !.patent_number = Some(<<"7">>), !.title = t, !.abstract = a,
                              !.claims = Some(c), !.us_references = Some(r)] :
        t \in Titles, a \in Abstracts, c \in ClaimLists, r \in ReferenceLists}

TextInit ==
    /\ content_patents \in SeqsUpTo(TextPatents, MaxPatents)
    /\ out_lines = <<>> /\ archive_text = <<>> /\ patents_raw = <<>>
    /\ parsed_patents = <<>> /\ text_pc = "format"

NotText == <<earlierVars, tagVars, sgmlVars, ctorVars, numberVars, dateVars, storeVars, fetchVars, apsVars, downloadVars, proxyVars>>

\* The lines of the patents from the i-th on, one after the other.
RECURSIVE ExtendLines(_, _)
ExtendLines(ps, i) ==
    IF i > Len(ps) THEN <<>>
    ELSE format_patent_as_lines(attrs, ps[i]) \o ExtendLines(ps, i + 1)

\* bulk_download.py 116-127: the lines of every patent
FormatPatents ==
    /\ text_pc = "format"
    /\ out_lines' = ExtendLines(content_patents, 1)
    /\ text_pc' = "join"
    /\ UNCHANGED <<content_patents, archive_text, patents_raw, parsed_patents, NotText>>

\* bulk_download.py 129: text = '\r\n'.join(lines)
JoinText ==
    /\ text_pc = "join"
    /\ archive_text' = Join(CRLF, out_lines)
    /\ text_pc' = "load"
    /\ UNCHANGED <<content_patents, out_lines, patents_raw, parsed_patents, NotText>>

\* zip_to_sqlite.py 283: patents_raw = load_patents(file)
LoadPatents ==
    /\ text_pc = "load"
    /\ patents_raw' = load_patents(archive_text)
    /\ text_pc' = "parse"
    /\ UNCHANGED <<content_patents, out_lines, archive_text, parsed_patents, NotText>>

\* zip_to_sqlite.py 286: patents = [parse_patent(p_str) for p_str in patents_raw]
ParsePatents ==
    /\ text_pc = "parse"
    /\ parsed_patents' = [i \in 1..Len(patents_raw) |-> parse_patent(patents_raw[i])]
    /\ text_pc' = "parsed"
    /\ UNCHANGED <<content_patents, out_lines, archive_text, patents_raw, NotText>>

TextNext == FormatPatents \/ JoinText \/ LoadPatents \/ ParsePatents

InitText == TextInit /\ EarlierIdle /\ TagIdle /\ SgmlIdle /\ CtorIdle /\ NumberIdle /\ DateIdle /\ StoreIdle /\ FetchIdle /\ ApsIdle /\ DownloadIdle /\ ProxyIdle

SpecText == InitText /\ [][TextNext]_vars

\* The key of an attribute and what is written for a patent under each key.
KeyOf(attr) == ReplaceChar(Upper(AttrName[attr]), "_", " ")
CLAIMS == <<"C", "L", "A", "I", "M", "S">>
SerializedClaims(p) ==
    IF p.claims[1] = <<>> THEN NoneText ELSE Join(<<" ">>, p.claims[1])
SerializedReferences(p) ==
    IF p.us_references[1] = <<>> THEN <<NoneText>>
    ELSE [i \in 1..Len(p.us_references[1]) |-> p.us_references[1][i].patent_number[1]]

\* The dictionary holds what was written for the patent.
RoundTrips(d, p) ==
    /\ \A i \in 1..Len(attrs) :
           KeyOf(attrs[i]) \in DOMAIN d /\ d[KeyOf(attrs[i])] = Format(p[attrs[i]])
    /\ CLAIMS \in DOMAIN d /\ d[CLAIMS] = SerializedClaims(p)
    /\ REFERENCES \in DOMAIN d /\ d[REFERENCES] = SerializedReferences(p)

\* C15: the text form round-trips: the patents written with
\* format_patent_as_lines and joined into one text, then split with
\* load_patents and parsed with parse_patent, give one dictionary per patent,
\* in order, each attribute mapping to the value that was written, "None" for
\* a value that is absent, whatever text the values hold.
C15_TextRoundTrips ==
    text_pc = "parsed" =>
        /\ Len(parsed_patents) = Len(content_patents)
        /\ \A i \in 1..Len(content_patents) :
               RoundTrips(parsed_patents[i], content_patents[i])

(***************************************************************************)
(* _parse_patent_number (scripts/zip_to_sqlite.py 221-231).                *)
(***************************************************************************)
\* characters of a raw patent number
MaxNumberLen == 3

\* Characters a raw patent number is made of.
NumberChars == {"0", "5", "D", "z", "_", " "}
RawNumbers == SeqsUpTo(NumberChars, MaxNumberLen)

\* str.isdigit()
IsDigits(s) == s # <<>> /\ \A i \in 1..Len(s) : s[i] \in Digits

\* int(s) for a str of digits
RECURSIVE IntOf(_)
IntOf(s) ==
    IF s = <<>> THEN 0
    ELSE 10 * IntOf(SubSeq(s, 1, Len(s) - 1))
         + (CHOOSE d \in 0..9 : <<"0", "1", "2", "3", "4", "5", "6", "7", "8", "9">>[d + 1] = s[Len(s)])

\* The class [A-z]: the characters from "A" to "z" in the order of their
\* codes, those that lie between "Z" and "a" among them (the grave accent,
\* the sixth of them, is in no input of the model).
AtoZRange == Uppercase \cup Lowercase \cup {"[", "\\", "]", "^", "_"}

\* The length of the longest prefix of s made of characters of the set S.
RECURSIVE RunLength(_, _)
RunLength(s, S) ==
    IF s = <<>> \/ s[1] \notin S THEN 0 ELSE 1 + RunLength(Tail(s), S)

\* re.match of the pattern ([A-z]+)(\d+) on raw: the two groups of a match at the start of
\* raw, None when there is none.  What follows the digits is not looked at.
MatchNumber(raw) ==
    LET n == RunLength(raw, AtoZRange)
        m == RunLength(Suffix(raw, n), Digits)
    IN IF n >= 1 /\ m >= 1
       THEN Some(<<SubSeq(raw, 1, n), SubSeq(raw, n + 1, n + m)>>)
       ELSE None

\* lines 221-231
_parse_patent_number(raw) ==
    IF IsDigits(raw)
    THEN [exc |-> "", field_type |-> None, p_num |-> Some(IntOf(raw))]
    ELSE LET match == MatchNumber(raw)
         IN IF match = None
            THEN [exc |-> "ValueError", field_type |-> None, p_num |-> None]
            ELSE [exc |-> "", field_type |-> Some(match[1][1]),
                  p_num |-> Some(IntOf(match[1][2]))]

NumberInit ==
    /\ raw_p_num \in RawNumbers
    /\ field_type = None /\ p_num = None /\ number_pc = "call"

NotNumber == <<earlierVars, tagVars, sgmlVars, ctorVars, textVars, dateVars, storeVars, fetchVars, apsVars, downloadVars, proxyVars>>

\* the call of _parse_patent_number
ParsePatentNumber ==
    /\ number_pc = "call"
    /\ LET r == _parse_patent_number(raw_p_num)
       IN /\ field_type' = r.field_type
          /\ p_num' = r.p_num
          /\ number_pc' = IF r.exc = "" THEN "returned" ELSE r.exc
    /\ UNCHANGED <<raw_p_num, NotNumber>>

NumberNext == ParsePatentNumber

InitNumber == NumberInit /\ EarlierIdle /\ TagIdle /\ SgmlIdle /\ CtorIdle /\ TextIdle /\ DateIdle /\ StoreIdle /\ FetchIdle /\ ApsIdle /\ DownloadIdle /\ ProxyIdle

SpecNumber == InitNumber /\ [][NumberNext]_vars

\* A str of one or more letters followed by digits, and its two parts.
Letters == Uppercase \cup Lowercase
LettersThenDigits(raw) ==
    LET n == RunLength(raw, Letters)
    IN n >= 1 /\ n < Len(raw) /\ IsDigits(Suffix(raw, n))

\* C16: a str of digits gives no prefix and the number the digits write; a
\* str of one or more letters followed by digits gives the letters and the
\* number of the digits; every other str fails with ValueError.
C16_PatentNumber ==
    number_pc \notin {"idle", "call"} =>
        IF IsDigits(raw_p_num)
        THEN /\ number_pc = "returned" /\ field_type = None
             /\ p_num = Some(IntOf(raw_p_num))
        ELSE IF LettersThenDigits(raw_p_num)
        THEN LET n == RunLength(raw_p_num, Letters)
             IN /\ number_pc = "returned"
                /\ field_type = Some(SubSeq(raw_p_num, 1, n))
                /\ p_num = Some(IntOf(Suffix(raw_p_num, n)))
        ELSE number_pc = "ValueError" /\ field_type = None /\ p_num = None

(***************************************************************************)
(* _safe_date (scripts/zip_to_sqlite.py 205-218).                          *)
(***************************************************************************)
\* Dates as they are written in the archive: YYYYMMDD.
DateYears == {<<"1", "9", "8", "0">>, <<"1", "9", "8", "1">>}
DateMonths == {<<"0", "2">>, <<"0", "3">>, <<"0", "4">>, <<"1", "1">>, <<"1", "3">>}
DateDays ==
    {<<"0", "0">>, <<"0", "1">>, <<"2", "8">>, <<"2", "9">>, <<"3", "0">>,
     <<"3", "1">>, <<"3", "2">>, <<"3", "5">>}
DateStrings == {y \o m \o d : y \in DateYears, m \in DateMonths, d \in DateDays}

\* The days of a month of the calendar.
IsLeap(year) == year % 4 = 0 /\ (year % 100 # 0 \/ year % 400 = 0)
DaysIn(year, month) ==
    IF month = 2 THEN (IF IsLeap(year) THEN 29 ELSE 28)
    ELSE IF month \in {4, 6, 9, 11} THEN 30 ELSE 31

\* datetime.datetime.strptime(date_str, '%Y%m%d') on a str of eight digits:
\* the date, or the message of the ValueError.  The directives take four, two
\* and two digits when the month is one of 01..12 and the day one of 01..31;
\* any other str leaves digits unconverted or does not match the format.
Strptime(s) ==
    LET year == IntOf(SubSeq(s, 1, 4))
        month == IntOf(SubSeq(s, 5, 6))
        day == IntOf(SubSeq(s, 7, 8))
    IN IF Len(s) = 8 /\ IsDigits(s) /\ month \in 1..12 /\ day \in 1..31
       THEN IF day <= DaysIn(year, month)
            THEN [exc |-> "", date |-> Some(<<year, month, day>>)]
            ELSE [exc |-> "day is out of range for month", date |-> None]
       ELSE [exc |-> "does not match format", date |-> None]

\* '{:02d}'.format(n) for n in -1..99
TwoDigits(n) ==
    LET digit == <<"0", "1", "2", "3", "4", "5", "6", "7", "8", "9">>
    IN IF n < 0 THEN <<"-", digit[1 - n]>>
       ELSE <<digit[(n \div 10) + 1], digit[(n % 10) + 1]>>

\* line 213: the str with its day decremented
DecrementDay(s) == SubSeq(s, 1, Len(s) - 2) \o TwoDigits(IntOf(Suffix(s, Len(s) - 2)) - 1)

DateInit ==
    /\ date_arg \in DateStrings
    /\ date_str = date_arg /\ date = None /\ date_pc = "try"

NotDate == <<earlierVars, tagVars, sgmlVars, ctorVars, textVars, numberVars, storeVars, fetchVars, apsVars, downloadVars, proxyVars>>

\* lines 206-209 and 215-218: strptime returns the date, or raises; an error
\* other than the day being out of range is raised again
TryStrptime ==
    /\ date_pc = "try"
    /\ LET r == Strptime(date_str)
       IN IF r.exc = "" THEN date' = r.date /\ date_pc' = "returned"
          ELSE IF r.exc = "day is out of range for month"
          THEN date' = date /\ date_pc' = "except"
          ELSE date' = date /\ date_pc' = "ValueError"
    /\ UNCHANGED <<date_arg, date_str, NotDate>>

\* lines 213-214: _safe_date is called with the day decremented
CallWithDayBefore ==
    /\ date_pc = "except"
    /\ date_str' = DecrementDay(date_str)
    /\ date_pc' = "try"
    /\ UNCHANGED <<date_arg, date, NotDate>>

DateNext == TryStrptime \/ CallWithDayBefore

InitDate == DateInit /\ EarlierIdle /\ TagIdle /\ SgmlIdle /\ CtorIdle /\ TextIdle /\ NumberIdle /\ StoreIdle /\ FetchIdle /\ ApsIdle /\ DownloadIdle /\ ProxyIdle

SpecDate == InitDate /\ [][DateNext]_vars

\* The year, the month and the day a YYYYMMDD str writes.
YearOf(s) == IntOf(SubSeq(s, 1, 4))
MonthOf(s) == IntOf(SubSeq(s, 5, 6))
DayOf(s) == IntOf(SubSeq(s, 7, 8))

\* C17: for a YYYYMMDD str with a valid year and month, a day that overflows
\* the month is decremented until the date is valid and the last day of the
\* month is returned; a valid date is returned as it is, date_str unchanged.
C17_SafeDate ==
    (date_pc \in {"returned", "ValueError"} /\ MonthOf(date_arg) \in 1..12
     /\ DayOf(date_arg) >= 1) =>
        LET last == DaysIn(YearOf(date_arg), MonthOf(date_arg))
        IN /\ date_pc = "returned"
           /\ IF DayOf(date_arg) <= last
              THEN /\ date = Some(<<YearOf(date_arg), MonthOf(date_arg), DayOf(date_arg)>>)
                   /\ date_str = date_arg
              ELSE date = Some(<<YearOf(date_arg), MonthOf(date_arg), last>>)

(***************************************************************************)
(* The ingestion into the store (scripts/zip_to_sqlite.py).  The tables    *)
(* are those of the schema: patents is the set of the PNum of its rows,    *)
(* patentdata, fulltexts and citations are the sequences of their rows in  *)
(* the order of insertion.  database is what is committed, transaction     *)
(* what the connection sees between two commits.                           *)
(***************************************************************************)
MaxFilePatents == 2

\* attrs of the listener (bulk_download.py 113-115)
listener_attrs ==
    <<"patent_number", "series_code", "application_number", "application_type",
      "application_date", "title", "abstract", "brief_summary", "description",
      "design_claims">>

\* The keys of the dictionary of a patent that insert_patents reads.
PATENT_NUMBER == <<"P", "A", "T", "E", "N", "T", " ", "N", "U", "M", "B", "E", "R">>
SERIES_CODE == <<"S", "E", "R", "I", "E", "S", " ", "C", "O", "D", "E">>
APPLICATION_NUMBER == <<"A", "P", "P", "L", "I", "C", "A", "T", "I", "O", "N", " ", "N", "U", "M", "B", "E", "R">>
APPLICATION_DATE == <<"A", "P", "P", "L", "I", "C", "A", "T", "I", "O", "N", " ", "D", "A", "T", "E">>
TITLE == <<"T", "I", "T", "L", "E">>
DESCRIPTION == <<"D", "E", "S", "C", "R", "I", "P", "T", "I", "O", "N">>
ABSTRACT == <<"A", "B", "S", "T", "R", "A", "C", "T">>
BRIEF_SUMMARY == <<"B", "R", "I", "E", "F", " ", "S", "U", "M", "M", "A", "R", "Y">>
DESIGN_CLAIMS == <<"D", "E", "S", "I", "G", "N", " ", "C", "L", "A", "I", "M", "S">>

\* The schema after INIT_DB has run on a new file (lines 32-50): no row.
EmptyTables == [patents |-> {}, patentdata |-> <<>>, fulltexts |-> <<>>, citations |-> <<>>]

\* The foreign keys of the schema, which PRAGMA foreign_keys = ON (line 47)
\* has the store enforce: the row may be inserted when the patents it names
\* have their row in patents.
ForeignKeysHold(tables, statement, row) ==
    CASE statement = "INSERT_PATENT" -> row[1] \in tables.patents
      [] statement = "INSERT_FULLTEXT" -> row[1] \in tables.patents
      [] statement = "INSERT_CITATION" -> row[1] \in tables.patents /\ row[2] \in tables.patents
      [] OTHER -> TRUE

\* cursor.execute of one of the statements of lines 17-29 with one row of
\* parameters: the tables with the row inserted, or IntegrityError.  The id
\* of a fulltexts row is the next one; the id of its text type is stood for
\* by the name the statement looks up.
Execute(tables, statement, row) ==
    IF ~ForeignKeysHold(tables, statement, row)
    THEN [exc |-> "IntegrityError", tables |-> tables]
    ELSE [exc |-> "",
          tables |->
              CASE statement = "INSERT_IGNORE_PNUM" ->
                       [tables EXCEPT !.patents = @ \cup {row[1]}]
                [] statement = "INSERT_PATENT" ->
                       [tables EXCEPT !.patentdata = Append(@, row)]
                [] statement = "INSERT_FULLTEXT" ->
                       [tables EXCEPT !.fulltexts = Append(@, <<Len(@) + 1>> \o row)]
                [] statement = "INSERT_CITATION" ->
                       [tables EXCEPT !.citations = Append(@, row)]]

\* cursor.executemany: the statement is executed with the rows from the i-th
\* on, one after the other; the first that fails ends it, what the rows
\* before it inserted staying in the transaction.
RECURSIVE executemany(_, _, _, _)
executemany(tables, statement, rows, i) ==
    IF i > Len(rows) THEN [exc |-> "", tables |-> tables]
    ELSE LET r == Execute(tables, statement, rows[i])
         IN IF r.exc # "" THEN r ELSE executemany(r.tables, statement, rows, i + 1)

\* re.sub(r'[^0-9]', '', s)
DigitsOnly(s) == SelectSeq(s, LAMBDA c : c \in Digits)

\* date.toordinal(): the days from the first of January of the year 1 on
DaysBeforeMonth(year, month) ==
    LET Before[m \in 1..12] == IF m = 1 THEN 0 ELSE Before[m - 1] + DaysIn(year, m - 1)
    IN Before[month]
toordinal(d) ==
    LET y == d[1] - 1
    IN 365 * y + (y \div 4) - (y \div 100) + (y \div 400) + DaysBeforeMonth(d[1], d[2]) + d[3]

\* _safe_date (lines 205-218) as a function of its argument
RECURSIVE _safe_date(_)
_safe_date(s) ==
    LET r == Strptime(s)
    IN IF r.exc = "" THEN r
       ELSE IF r.exc = "day is out of range for month" THEN _safe_date(DecrementDay(s))
       ELSE [exc |-> "ValueError", date |-> None]

\* _get_patent_info (lines 189-202): the five values, or the exception of a
\* missing key, of the number or of the date, whichever comes first
_get_patent_info(patent_dict) ==
    LET failed(e) == [exc |-> e, field_type |-> None, p_num |-> None, app_num |-> <<>>,
                      series_code |-> <<>>, date |-> None]
    IN IF PATENT_NUMBER \notin DOMAIN patent_dict THEN failed("KeyError")
       ELSE LET number == _parse_patent_number(patent_dict[PATENT_NUMBER])
            IN IF number.exc # "" THEN failed(number.exc)
               ELSE IF ~({APPLICATION_NUMBER, SERIES_CODE, APPLICATION_DATE}
                            \subseteq DOMAIN patent_dict)
               THEN failed("KeyError")
               ELSE LET written == patent_dict[APPLICATION_DATE]
                        day == IF written # NoneText THEN _safe_date(written)
                               ELSE [exc |-> "", date |-> None]
                    IN IF day.exc # "" THEN failed(day.exc)
                       ELSE [exc |-> "", field_type |-> number.field_type,
                             p_num |-> number.p_num,
                             app_num |-> DigitsOnly(patent_dict[APPLICATION_NUMBER]),
                             series_code |-> patent_dict[SERIES_CODE],
                             date |-> IF day.date = None THEN None
                                      ELSE Some(toordinal(day.date[1]))]

\* _get_fulltexts (lines 177-186)
_get_fulltexts(patent_dict, patent_number) ==
    LET present(key) == key \in DOMAIN patent_dict /\ patent_dict[key] # NoneText
        text_keys == <<DESCRIPTION, ABSTRACT, BRIEF_SUMMARY, CLAIMS>>
        found == SelectSeq(text_keys, present)
    IN [i \in 1..Len(found) |-> <<patent_number, found[i], patent_dict[found[i]]>>]
       \o (IF present(DESIGN_CLAIMS)
           THEN <<<<patent_number, CLAIMS, patent_dict[DESIGN_CLAIMS]>>>> ELSE <<>>)

\* _get_references (lines 165-174): a reference whose number raises
\* ValueError is passed over
_get_references(patent_dict, patent_number) ==
    LET good(raw_ref) == _parse_patent_number(raw_ref).exc = ""
        kept == SelectSeq(patent_dict[REFERENCES], good)
    IN [i \in 1..Len(kept) |-> <<patent_number, _parse_patent_number(kept[i]).p_num[1]>>]

\* lines 139-154: the three lists after the loop over the patents from the
\* i-th on, or the exception that ends the loop
RECURSIVE CollectRows(_, _, _)
CollectRows(ps, i, lists) ==
    IF i > Len(ps) THEN lists
    ELSE LET info == _get_patent_info(ps[i])
         IN IF info.exc # "" THEN [lists EXCEPT !.exc = info.exc]
            ELSE IF info.app_num = <<>> THEN [lists EXCEPT !.exc = "ValueError"]
            ELSE IF TITLE \notin DOMAIN ps[i] THEN [lists EXCEPT !.exc = "KeyError"]
            ELSE CollectRows(ps, i + 1,
                     [exc |-> "",
                      values |-> Append(lists.values,
                          <<info.p_num[1], info.field_type, IntOf(info.app_num),
                            IF info.series_code # NoneText THEN Some(info.series_code) ELSE None,
                            info.date, ps[i][TITLE]>>),
                      fulltexts |-> lists.fulltexts \o _get_fulltexts(ps[i], info.p_num[1]),
                      references |-> lists.references \o _get_references(ps[i], info.p_num[1])])

\* A set as a sequence, for executemany over a set of rows.
RECURSIVE SetToSeq(_)
SetToSeq(S) ==
    IF S = {} THEN <<>>
    ELSE LET x == CHOOSE y \in S : TRUE IN <<x>> \o SetToSeq(S \ {x})

\* A set of referred patents that leaves every one of them out.
referredNothing(refs) == {}

\* line 160: referred = set((ref, ) for p, ref in references)
referred(refs) == {<<refs[i][2]>> : i \in 1..Len(refs)}

\* insert_patents (lines 129-162) as a function of the tables: the rows are
\* collected, then the five executemany run in their order.
insert_patents(ps, tables) ==
    LET lists == CollectRows(ps, 1, [exc |-> "", values |-> <<>>, fulltexts |-> <<>>,
                                     references |-> <<>>])
        one == executemany(tables, "INSERT_IGNORE_PNUM",
                           [i \in 1..Len(lists.values) |-> <<lists.values[i][1]>>], 1)
        two == executemany(one.tables, "INSERT_PATENT", lists.values, 1)
        three == executemany(two.tables, "INSERT_FULLTEXT", lists.fulltexts, 1)
        four == executemany(three.tables, "INSERT_IGNORE_PNUM",
                            SetToSeq(referred(lists.references)), 1)
        five == executemany(four.tables, "INSERT_CITATION", lists.references, 1)
    IN IF lists.exc # "" THEN [exc |-> lists.exc, tables |-> tables]
       ELSE IF two.exc # "" THEN two
       ELSE IF three.exc # "" THEN three
       ELSE five

\* A connection that commits every statement as it is executed.
CommittedAfterStatementAutocommit(committed, tables) == tables

\* What is committed while a transaction is open: sqlite3.connect (line 45)
\* leaves the isolation level at its default, so the inserts open a
\* transaction and nothing of it is committed before conn.commit().
CommittedAfterStatement(committed, tables) == committed

\* The patents that the parsers hand to the listener of bulk_download.py.
Cited(numbers) ==
    [i \in 1..Len(numbers) |-> [USReferenceDefaults EXCEPT !.patent_number = Some(numbers[i])]]
StorePatent(number, application, day, refs) ==
    [USPatentDefaults EXCEPT !.patent_number = number, !.application_number = application,
                             !.application_date = day, !.title = Some(<<"t">>),
                             !.abstract = Some(<<"a">>), !.us_references = Some(refs)]
StorePatents ==
    {StorePatent(Some(<<"5">>), Some(<<"0", "8", "/", "1">>), Some(<<"1", "9", "8", "1", "0", "2", "3", "0">>),
                 Cited(<<<<"7">>, <<"?">>, <<"D", "8">>>>)),
     StorePatent(Some(<<"7">>), Some(<<"3">>), None, Cited(<<<<"5">>>>)),
     StorePatent(None, Some(<<"4">>), None, Cited(<<<<"9">>>>))}

\* bulk_download.py 116-129: the text of a file of the archive
RECURSIVE ListenerLines(_, _)
ListenerLines(ps, i) ==
    IF i > Len(ps) THEN <<>>
    ELSE format_patent_as_lines(listener_attrs, ps[i]) \o ListenerLines(ps, i + 1)
FileContents(ps) == Join(CRLF, ListenerLines(ps, 1))

\* z.namelist(): the names of the files of the archive, in order
FileNames == <<"1976.txt", "1977.txt">>
Archives ==
    {[i \in 1..Len(files) |-> [name |-> FileNames[i], contents |-> FileContents(files[i])]] :
        files \in SeqsUpTo(SeqsUpTo(StorePatents, MaxFilePatents) \ {<<>>}, Len(FileNames))
                  \ {<<>>}}

\* lines 266-274: the connection to a new store and the names to skip
StoreInit ==
    /\ archive_files \in Archives
    /\ to_skip \in SUBSET {FileNames[i] : i \in 1..Len(FileNames)}
    /\ file_i = 1 /\ file_patents = <<>>
    /\ values = <<>> /\ fulltexts = <<>> /\ citing = <<>>
    /\ transaction = EmptyTables /\ database = EmptyTables
    /\ store_pc = "next"

NotStore == <<earlierVars, tagVars, sgmlVars, ctorVars, textVars, numberVars, dateVars, fetchVars, apsVars, downloadVars, proxyVars>>

\* lines 277-280: a name of the skip list is passed over
SkipFile ==
    /\ store_pc = "next" /\ file_i <= Len(archive_files)
    /\ archive_files[file_i].name \in to_skip
    /\ file_i' = file_i + 1
    /\ UNCHANGED <<archive_files, to_skip, file_patents, values, fulltexts, citing,
                   transaction, database, store_pc, NotStore>>

\* lines 281-286: the file is read, split into patents and each is parsed
ReadFile ==
    /\ store_pc = "next" /\ file_i <= Len(archive_files)
    /\ archive_files[file_i].name \notin to_skip
    /\ LET raw == load_patents(archive_files[file_i].contents)
       IN file_patents' = [k \in 1..Len(raw) |-> parse_patent(raw[k])]
    /\ store_pc' = "collect"
    /\ UNCHANGED <<archive_files, to_skip, file_i, values, fulltexts, citing,
                   transaction, database, NotStore>>

\* lines 139-154: the rows of the patents of the file; an exception of a
\* patent leaves insert_patents and ends the script
CollectInsertRows ==
    /\ store_pc = "collect"
    /\ LET lists == CollectRows(file_patents, 1,
                        [exc |-> "", values |-> <<>>, fulltexts |-> <<>>, references |-> <<>>])
       IN IF lists.exc # ""
          THEN /\ store_pc' = lists.exc
               /\ UNCHANGED <<values, fulltexts, citing>>
          ELSE /\ values' = lists.values
               /\ fulltexts' = lists.fulltexts
               /\ citing' = lists.references
               /\ store_pc' = "insert_pnum"
    /\ UNCHANGED <<archive_files, to_skip, file_i, file_patents, transaction, database,
                   NotStore>>

\* One executemany of insert_patents: the statement with its rows, then the
\* next line of the function, or the exception of the store.
ExecuteManyStep(at, statement, rows, then) ==
    /\ store_pc = at
    /\ LET r == executemany(transaction, statement, rows, 1)
       IN /\ transaction' = r.tables
          /\ database' = CommittedAfterStatement(database, r.tables)
          /\ store_pc' = IF r.exc = "" THEN then ELSE r.exc
    /\ UNCHANGED <<archive_files, to_skip, file_i, file_patents, values, fulltexts, citing,
                   NotStore>>

\* line 156
InsertPatentNumbers ==
    ExecuteManyStep("insert_pnum", "INSERT_IGNORE_PNUM",
                    [i \in 1..Len(values) |-> <<values[i][1]>>], "insert_patent")
\* line 157
InsertPatentData ==
    ExecuteManyStep("insert_patent", "INSERT_PATENT", values, "insert_fulltext")
\* line 158
InsertFulltexts ==
    ExecuteManyStep("insert_fulltext", "INSERT_FULLTEXT", fulltexts, "insert_referred")
\* lines 160-161
InsertReferred ==
    ExecuteManyStep("insert_referred", "INSERT_IGNORE_PNUM", SetToSeq(referred(citing)),
                    "insert_citation")
\* line 162
InsertCitations ==
    ExecuteManyStep("insert_citation", "INSERT_CITATION", citing, "commit")

\* lines 291-294: conn.commit(), then the next name
Commit ==
    /\ store_pc = "commit"
    /\ database' = transaction
    /\ file_i' = file_i + 1
    /\ store_pc' = "next"
    /\ UNCHANGED <<archive_files, to_skip, file_patents, values, fulltexts, citing,
                   transaction, NotStore>>

\* line 297: conn.close() after the last name
CloseConnection ==
    /\ store_pc = "next" /\ file_i > Len(archive_files)
    /\ store_pc' = "closed"
    /\ UNCHANGED <<archive_files, to_skip, file_i, file_patents, values, fulltexts, citing,
                   transaction, database, NotStore>>

StoreNext ==
    \/ SkipFile \/ ReadFile \/ CollectInsertRows
    \/ InsertPatentNumbers \/ InsertPatentData \/ InsertFulltexts
    \/ InsertReferred \/ InsertCitations
    \/ Commit \/ CloseConnection

InitStore == StoreInit /\ EarlierIdle /\ TagIdle /\ SgmlIdle /\ CtorIdle /\ TextIdle /\ NumberIdle /\ DateIdle /\ FetchIdle /\ ApsIdle /\ DownloadIdle /\ ProxyIdle

SpecStore == InitStore /\ [][StoreNext]_vars

\* Every patent that a row of patentdata, of fulltexts or of citations names
\* has its row in patents.
ReferentialIntegrity(tables) ==
    /\ \A i \in 1..Len(tables.patentdata) : tables.patentdata[i][1] \in tables.patents
    /\ \A i \in 1..Len(tables.fulltexts) : tables.fulltexts[i][2] \in tables.patents
    /\ \A i \in 1..Len(tables.citations) :
           tables.citations[i][1] \in tables.patents /\ tables.citations[i][2] \in tables.patents

\* The patents with a row in patentdata.
Ingested(tables) == {tables.patentdata[i][1] : i \in 1..Len(tables.patentdata)}

\* C18: in every state during and after the calls of insert_patents, every
\* patent number of a row of patentdata, of fulltexts or of citations (citing
\* or cited) has its row in patents, in the open transaction and in what is
\* committed; the row of a patent that is only cited is inserted before the
\* citation that names it, so the store never refuses an insert for a
\* missing patents row.
C18_ReferentialIntegrity ==
    /\ ReferentialIntegrity(transaction)
    /\ ReferentialIntegrity(database)
    /\ store_pc # "IntegrityError"

\* A citation of a patent that is only cited and never ingested is stored.
C18_Witness ==
    /\ store_pc = "commit"
    /\ \E i \in 1..Len(transaction.citations) :
           /\ transaction.citations[i][2] \notin Ingested(transaction)
           /\ transaction.citations[i][2] \in transaction.patents

\* What the store holds when the first k files of the archive have been
\* ingested, each as a whole, the skipped ones passed over.
RECURSIVE WholeFiles(_)
WholeFiles(k) ==
    IF k = 0 THEN EmptyTables
    ELSE LET before == WholeFiles(k - 1)
             raw == load_patents(archive_files[k].contents)
         IN IF archive_files[k].name \in to_skip THEN before
            ELSE insert_patents([j \in 1..Len(raw) |-> parse_patent(raw[j])], before).tables

\* C19: the ingestion of one file is one transaction: what is committed is
\* always the rows of whole files, those before the file at hand, and never
\* part of the rows of a file; this holds while the rows of a file are being
\* inserted and after the insert of a file has failed, when the rows of the
\* files committed before it stay committed.
C19_FileIsOneTransaction == database = WholeFiles(file_i - 1)

\* The insert of the second file has failed and the rows of the first, a
\* citation and the row of its only-cited patent among them, are committed.
C19_Witness ==
    /\ store_pc = "ValueError" /\ file_i = 2
    /\ database.patentdata # <<>>
    /\ \E i \in 1..Len(database.citations) : database.citations[i][2] \notin Ingested(database)

\* The records of the file at hand whose PATENT NUMBER is of one of the two
\* patterns.
GoodNumber(d) == PATENT_NUMBER \in DOMAIN d /\ _parse_patent_number(d[PATENT_NUMBER]).exc = ""
GoodRecords == SelectSeq(file_patents, GoodNumber)

\* C20: the ingestion of a file does not raise for the failure of one
\* document: a record whose PATENT NUMBER matches neither pattern is passed
\* over and the other records of the file are inserted, and a reference whose
\* number matches neither pattern is passed over while the other references
\* of the record become citations.
C20_BadDocumentSkipped ==
    /\ store_pc = "ValueError" => GoodRecords = file_patents
    /\ store_pc = "insert_pnum" =>
           /\ Len(values) = Len(GoodRecords)
           /\ \A i \in 1..Len(values) :
                  values[i][1] = _parse_patent_number(GoodRecords[i][PATENT_NUMBER]).p_num[1]
           /\ \A i \in 1..Len(GoodRecords) :
                  \A k \in 1..Len(GoodRecords[i][REFERENCES]) :
                      LET ref == _parse_patent_number(GoodRecords[i][REFERENCES][k])
                      IN ref.exc = "" =>
                             \E c \in 1..Len(citing) :
                                 citing[c] = <<values[i][1], ref.p_num[1]>>

(***************************************************************************)
(* The fetch operations of uspto_tools/fetch/patft.py.  A page is what the *)
(* server answers, as BeautifulSoup reads it: the number of its center     *)
(* elements, the text of the first b element after the second center, the *)
(* text of its a elements with their href, and the rest of its text.       *)
(***************************************************************************)
FetchOperations ==
    {"fetch_with_patent_id_and_family_id", "fetch_patent_family", "fetch_multiple_patents"}

ResultsOfSearch == <<"R", "e", "s", "u", "l", "t", "s", " ", "o", "f", " ", "S", "e", "a", "r", "c", "h">>
NoPatentsHaveMatched == <<"N", "o", " ", "p", "a", "t", "e", "n", "t", "s", " ", "h", "a", "v", "e", " ", "m", "a", "t", "c", "h", "e", "d">>

Bolds == {None, Some(<<"R", "e", "s", "u", "l", "t", "s", " ", "o", "f", " ", "S", "e", "a", "r", "c", "h", " ", "i", "n", " ", "d", "b">>), Some(<<"U", "n", "i", "t", "e", "d", " ", "S", "t", "a", "t", "e", "s", " ", "P", "a", "t", "e", "n", "t">>)}
OtherTexts == {<<"N", "o", " ", "p", "a", "t", "e", "n", "t", "s", " ", "h", "a", "v", "e", " ", "m", "a", "t", "c", "h", "e", "d", " ", "y", "o", "u", "r", " ", "q", "u", "e", "r", "y", ".">>, <<"A", "b", "s", "t", "r", "a", "c", "t">>}
AnchorLists ==
    {<<>>,
     <<[text |-> <<"6", ",", "1", "8", "7", ",", "5", "6", "8">>, href |-> Some("/6187568")],
       [text |-> <<"H", "o", "m", "e">>, href |-> Some("/home")]>>,
     <<[text |-> <<"5", "+", "1", " ", "a", "x", "i", "s", " ", "m", "a", "c", "h", "i", "n", "e">>, href |-> Some("/title")],
       [text |-> <<"4", ",", "3", "7", "6", ",", "1", "2", "0">>, href |-> None]>>}
Pages ==
    {[centers |-> c, next_b |-> b, anchors |-> a, other_text |-> t] :
        c \in {1, 2}, b \in Bolds, a \in AnchorLists, t \in OtherTexts}

\* soup.text: the text of the whole page
SoupText(p) ==
    (IF p.next_b = None THEN <<>> ELSE p.next_b[1])
    \o Join(<<" ">>, [i \in 1..Len(p.anchors) |-> p.anchors[i].text])
    \o p.other_text

\* check_retrieval_is_not_empty (lines 218-231): the exception it raises, ""
\* when it returns
check_retrieval_is_not_empty(p) ==
    IF p.centers < 2 THEN "IndexError"
    ELSE IF p.next_b = None THEN ""
    ELSE LET has_result_text == StartsWith(p.next_b[1], ResultsOfSearch)
             no_match == Contains(SoupText(p), NoPatentsHaveMatched)
         IN IF has_result_text /\ no_match THEN "RetrievalIsEmpty" ELSE ""

\* re.match(r'(\d+[,\d+]*)', a.text) (line 197): the text matched at the
\* start, None when the text does not start with a digit.  The class
\* [,\d+] holds the comma, the digits and the plus sign.
IdMatch(a_text) ==
    LET n == RunLength(a_text, Digits)
        m == RunLength(Suffix(a_text, n), Digits \cup {",", "+"})
    IN IF n >= 1 THEN Some(SubSeq(a_text, 1, n + m)) ELSE None

\* raw_id.replace(',', '')
RemoveCommas(s) == SelectSeq(s, LAMBDA c : c # ",")

\* lines 195-201: the links after the a elements from the i-th on, or the
\* KeyError of an a element without href
RECURSIVE LinksLoop(_, _, _)
LinksLoop(as, i, found) ==
    IF i > Len(as) THEN [exc |-> "", links |-> found]
    ELSE LET id_match == IdMatch(as[i].text)
         IN IF id_match = None THEN LinksLoop(as, i + 1, found)
            ELSE IF as[i].href = None THEN [exc |-> "KeyError", links |-> found]
            ELSE LET patent_id == RemoveCommas(id_match[1])
                 IN LinksLoop(as, i + 1,
                        [k \in DOMAIN found \cup {patent_id} |->
                            IF k = patent_id THEN as[i].href[1] ELSE found[k]])

\* split_bulk_fetch (lines 182-202): the mapping from the patent id to the
\* page of its link, the page being stood for by the link
split_bulk_fetch(p) == LinksLoop(p.anchors, 1, <<>>)

FetchInit ==
    /\ operation \in FetchOperations
    /\ page \in Pages
    /\ fetch_soup = None /\ fetched = None /\ fetch_pc = "call"

NotFetch == <<earlierVars, tagVars, sgmlVars, ctorVars, textVars, numberVars, dateVars, storeVars, apsVars, downloadVars, proxyVars>>

\* call_and_parse_url (lines 65-68, called at 124, 150 and 177)
CallAndParseUrl ==
    /\ fetch_pc = "call"
    /\ fetch_soup' = Some(page)
    /\ fetch_pc' = "check"
    /\ UNCHANGED <<operation, page, fetched, NotFetch>>

\* lines 125, 151 and 178
CheckRetrievalIsNotEmpty ==
    /\ fetch_pc = "check"
    /\ LET e == check_retrieval_is_not_empty(fetch_soup[1])
       IN fetch_pc' = IF e = "" THEN "return" ELSE e
    /\ UNCHANGED <<operation, page, fetch_soup, fetched, NotFetch>>

\* line 126: return soup
ReturnSoup ==
    /\ fetch_pc = "return" /\ operation = "fetch_with_patent_id_and_family_id"
    /\ fetched' = fetch_soup
    /\ fetch_pc' = "returned"
    /\ UNCHANGED <<operation, page, fetch_soup, NotFetch>>

\* lines 152 and 179: return split_bulk_fetch(soup)
ReturnSplitBulkFetch ==
    /\ fetch_pc = "return" /\ operation # "fetch_with_patent_id_and_family_id"
    /\ LET r == split_bulk_fetch(fetch_soup[1])
       IN IF r.exc = "" THEN fetched' = Some(r.links) /\ fetch_pc' = "returned"
          ELSE fetched' = fetched /\ fetch_pc' = r.exc
    /\ UNCHANGED <<operation, page, fetch_soup, NotFetch>>

FetchNext == CallAndParseUrl \/ CheckRetrievalIsNotEmpty \/ ReturnSoup \/ ReturnSplitBulkFetch

InitFetch == FetchInit /\ EarlierIdle /\ TagIdle /\ SgmlIdle /\ CtorIdle /\ TextIdle /\ NumberIdle /\ DateIdle /\ StoreIdle /\ ApsIdle /\ DownloadIdle /\ ProxyIdle

SpecFetch == InitFetch /\ [][FetchNext]_vars

\* The page reports that no patent matched the query.
NoPatentsMatched(p) == Contains(SoupText(p), NoPatentsHaveMatched)

\* C21: each of the three fetch operations raises RetrievalIsEmpty when the
\* page it retrieved reports that no patents matched the query; when the
\* page holds a patent it returns without raising, the page itself or a
\* mapping whose keys are patent ids of digits only.
C21_RetrievalChecked ==
    fetch_pc \notin {"idle", "call", "check", "return"} =>
        IF NoPatentsMatched(page) THEN fetch_pc = "RetrievalIsEmpty"
        ELSE /\ fetch_pc = "returned"
             /\ operation # "fetch_with_patent_id_and_family_id" =>
                    \A id \in DOMAIN fetched[1] : IsDigits(id)

(***************************************************************************)
(* parse_aps_chunk (parse/aps.py 148-220), one namespace of the loop at a  *)
(* time.  A chunk is the lines of one document: the PATN namespace, then   *)
(* namespaces of inventors, references, classification and paragraphs.     *)
(***************************************************************************)
MaxGroups == 3

PatnGroup == <<PATN, <<"W", "K", "U", " ", " ", "1", "2">>>>
ApsGroups ==
    {<<INVT, <<"N", "A", "M", " ", " ", "a">>>>,
     <<<<"I", "N", "V", "T", " ", " ", "x">>, <<"N", "A", "M", " ", " ", "b">>, <<"C", "T", "Y", " ", " ", "c">>>>,
     <<UREF, <<"P", "N", "O", " ", " ", "1">>>>,
     <<UREF, <<"P", "N", "O", " ", " ", "2">>, <<"I", "S", "D", " ", " ", "3">>>>,
     <<CLAS, <<"O", "C", "L", " ", " ", "7">>, <<"X", "C", "L", " ", " ", "8">>, <<"X", "C", "L", " ", " ", "9">>>>,
     <<<<"A", "B", "S", "T">>, <<"P", "A", "L", " ", " ", "H", "E", "A", "D">>, <<"P", "A", "R", " ", " ", "b", "o", "d", "y">>, <<"N", "U", "M", " ", " ", "N">>>>,
     <<<<"B", "S", "U", "M">>, <<"P", "A", "1", " ", " ", "A", "1">>, <<"P", "A", "C", " ", " ", "1", "2">>, <<"P", "A", " ", " ", " ", "x">>, <<"P", "A", "R", " ", " ">>>>}

RECURSIVE Concat(_)
Concat(seqs) == IF seqs = <<>> THEN <<>> ELSE seqs[1] \o Concat(Tail(seqs))

ApsChunks == {PatnGroup \o Concat(groups) : groups \in SeqsUpTo(ApsGroups, MaxGroups)}

ApsInit ==
    /\ aps_chunk \in ApsChunks
    /\ aps_namespaces = <<>> /\ aps_ns_i = 0 /\ aps_values = <<>>
    /\ aps_patent = None /\ aps_pc = "namespaces"

NotAps == <<earlierVars, tagVars, sgmlVars, ctorVars, textVars, numberVars, dateVars, storeVars, fetchVars, downloadVars, proxyVars>>

\* line 160: namespaces = parse_aps_into_namespaces(chunk)
ParseIntoNamespaces ==
    /\ aps_pc = "namespaces"
    /\ LET made == parse_aps_into_namespaces(aps_chunk)
       IN IF made.exc # ""
          THEN aps_namespaces' = aps_namespaces /\ aps_pc' = made.exc
          ELSE aps_namespaces' = made.obj /\ aps_pc' = "loop"
    /\ UNCHANGED <<aps_chunk, aps_ns_i, aps_values, aps_patent, NotAps>>

\* lines 193-218: the values of the next namespace join all_values
UpdateValues ==
    /\ aps_pc = "loop" /\ aps_ns_i < Len(aps_namespaces)
    /\ aps_values' = ValuesStep(aps_namespaces[aps_ns_i + 1], aps_values)
    /\ aps_ns_i' = aps_ns_i + 1
    /\ UNCHANGED <<aps_chunk, aps_namespaces, aps_patent, aps_pc, NotAps>>

\* line 220: return USPatent(**all_values)
ReturnUSPatent ==
    /\ aps_pc = "loop" /\ aps_ns_i = Len(aps_namespaces)
    /\ LET made == USPatent(aps_values)
       IN IF made.exc # "" THEN aps_patent' = aps_patent /\ aps_pc' = made.exc
          ELSE aps_patent' = Some(made.obj) /\ aps_pc' = "returned"
    /\ UNCHANGED <<aps_chunk, aps_namespaces, aps_ns_i, aps_values, NotAps>>

ApsNext == ParseIntoNamespaces \/ UpdateValues \/ ReturnUSPatent

InitAps == ApsInit /\ EarlierIdle /\ TagIdle /\ SgmlIdle /\ CtorIdle /\ TextIdle /\ NumberIdle /\ DateIdle /\ StoreIdle /\ FetchIdle /\ DownloadIdle /\ ProxyIdle

SpecAps == InitAps /\ [][ApsNext]_vars

\* The namespaces of a name among those of the chunk, in their order.
NamespacesNamed(name) == SelectSeq(aps_namespaces, LAMBDA ns : ns.name = name)

\* The data of the tags of a key in a namespace, joined by newlines.
JoinedData(ns, key) ==
    LET at == SortedSeq({i \in 1..Len(ns.data) : ns.data[i].key = key})
    IN Join(NL, [k \in 1..Len(at) |-> ns.data[at[k]].data])

\* C22: the classification of the patent that parse_aps_chunk returns
\* carries the values of the CLAS namespace: each field equals the data of
\* the tags of its key joined by newlines (OCL gives us_classification, XCL
\* cross_reference, and so on).
C22_ClassificationCarriesValues ==
    (aps_pc = "returned" /\ NamespacesNamed(CLAS) # <<>>) =>
        LET clas == NamespacesNamed(CLAS)[Len(NamespacesNamed(CLAS))]
            built == aps_patent[1].patent_classification[1]
        IN \A m \in ClassificationMapping : built[m[2]] = Some(JoinedData(clas, m[1]))

\* The namespaces of a name among the first n of the chunk, in their order.
FirstNamespacesNamed(name, n) ==
    SelectSeq(SubSeq(aps_namespaces, 1, n), LAMBDA ns : ns.name = name)

\* The list of an attribute in a mapping of values, empty when it is not set.
ListOf(all_values, attr) ==
    IF attr \in DOMAIN all_values THEN all_values[attr][1] ELSE <<>>

\* The entries of a list are those of the namespaces, one each, in order:
\* the inventors carry the NAM of theirs, the references the PNO of theirs.
OneEntryPerNamespace(entries, nss, attr, key) ==
    /\ Len(entries) = Len(nss)
    /\ \A i \in 1..Len(nss) : entries[i][attr] = Some(JoinedData(nss[i], key))

\* C23: in parse_aps_chunk the inventors and the references accumulate: after
\* every namespace of the loop the list of inventors has one entry per INVT
\* namespace read so far and the list of references one per UREF namespace,
\* in the order of the document, so a later namespace never replaces an
\* earlier entry; the returned patent has one entry per namespace of the
\* chunk.
C23_GroupsAccumulate ==
    /\ aps_pc = "loop" =>
           /\ OneEntryPerNamespace(ListOf(aps_values, "inventors"),
                                   FirstNamespacesNamed(INVT, aps_ns_i), "name",
                                   <<"N", "A", "M">>)
           /\ OneEntryPerNamespace(ListOf(aps_values, "us_references"),
                                   FirstNamespacesNamed(UREF, aps_ns_i), "patent_number",
                                   <<"P", "N", "O">>)
    /\ aps_pc = "returned" =>
           /\ OneEntryPerNamespace(aps_patent[1].inventors[1], NamespacesNamed(INVT),
                                   "name", <<"N", "A", "M">>)
           /\ OneEntryPerNamespace(aps_patent[1].us_references[1], NamespacesNamed(UREF),
                                   "patent_number", <<"P", "N", "O">>)

\* A patent with two inventors and a reference was returned.
C23_Witness ==
    /\ aps_pc = "returned"
    /\ Len(NamespacesNamed(INVT)) = 2 /\ Len(NamespacesNamed(UREF)) = 1
    /\ Len(aps_patent[1].inventors[1]) = 2
    /\ aps_patent[1].inventors[1][1].name # aps_patent[1].inventors[1][2].name

\* A payload is all upper-case: it has a letter and no lower-case letter.
AllUpperCase(s) ==
    /\ \E i \in 1..Len(s) : s[i] \in Uppercase \cup Lowercase
    /\ Upper(s) = s

\* The payloads of the paragraph tags among tags, each as it is joined.
RECURSIVE ParagraphPayloads(_)
ParagraphPayloads(tags) ==
    IF tags = <<>> THEN <<>>
    ELSE LET tag == tags[1]
         IN (IF Len(tag.key) = 3 /\ SubSeq(tag.key, 1, 2) = <<"P", "A">>
             THEN <<IF AllUpperCase(tag.data) THEN tag.data \o <<" ">> ELSE tag.data>>
             ELSE <<>>)
            \o ParagraphPayloads(Tail(tags))

\* C24: as_paragraphs gives the data of the paragraph tags of the namespace
\* (key PA and one more character), in order, joined by newlines, an
\* all-upper-case payload followed by one inserted space and every other
\* payload unchanged; the other tags contribute nothing.  The attribute of a
\* paragraph namespace (abstract, brief_summary, ...) of the returned patent
\* is that text.
C24_AsParagraphs ==
    aps_pc = "returned" =>
        \A p \in ParagraphNames :
            NamespacesNamed(p[1]) # <<>> =>
                aps_patent[1][p[2]] =
                    Some(Join(NL, ParagraphPayloads(
                             NamespacesNamed(p[1])[Len(NamespacesNamed(p[1]))].data)))

\* An abstract with a heading, a body paragraph and a tag that is no
\* paragraph was returned, next to a summary with other payloads.
C24_Witness ==
    /\ aps_pc = "returned"
    /\ aps_patent[1].abstract = Some(<<"H", "E", "A", "D", " ", "\n", "b", "o", "d", "y">>)
    /\ aps_patent[1].brief_summary # None

\* Records whose APPLICATION NUMBER varies, for the ingestion of one file.
ApplicationNumbers ==
    {Some(<<"0", "8", "/", "1">>), Some(<<"1", "2">>), Some(<<"D", "-", "3", ",", "4">>), Some(<<"n", "/", "a">>), Some(<<>>), None}
NumberedPatents == {StorePatent(Some(<<"5">>), a, None, <<>>) : a \in ApplicationNumbers}

\* lines 266-274, for an archive of one file of such records
StoreNumbersInit ==
    /\ archive_files \in
           {<<[name |-> FileNames[1], contents |-> FileContents(ps)]>> :
               ps \in SeqsUpTo(NumberedPatents, MaxFilePatents) \ {<<>>}}
    /\ to_skip \in SUBSET {FileNames[1]}
    /\ file_i = 1 /\ file_patents = <<>>
    /\ values = <<>> /\ fulltexts = <<>> /\ citing = <<>>
    /\ transaction = EmptyTables /\ database = EmptyTables
    /\ store_pc = "next"

InitStoreNumbers == StoreNumbersInit /\ EarlierIdle /\ TagIdle /\ SgmlIdle /\ CtorIdle /\ TextIdle /\ NumberIdle /\ DateIdle /\ FetchIdle /\ ApsIdle /\ DownloadIdle /\ ProxyIdle

SpecStoreNumbers == InitStoreNumbers /\ [][StoreNext]_vars

\* The number that the digits of a text write, the other characters passed
\* over; 0 when there is no digit.
RECURSIVE NumberOfDigits(_)
NumberOfDigits(s) ==
    IF s = <<>> THEN 0
    ELSE LET before == NumberOfDigits(SubSeq(s, 1, Len(s) - 1))
             last == s[Len(s)]
         IN IF last \in Digits THEN 10 * before + IntOf(<<last>>) ELSE before

\* C25: every record that insert_patents ingests is stored in patentdata with
\* the application number that the digits of its APPLICATION NUMBER form, the
\* other characters stripped, whatever the field holds, a field without any
\* digit included: no value of the field makes the ingestion raise.
C25_ApplicationNumberDigits ==
    /\ store_pc = "ValueError" => \E i \in 1..Len(file_patents) : ~GoodNumber(file_patents[i])
    /\ store_pc = "commit" =>
           /\ Len(transaction.patentdata) = Len(file_patents)
           /\ \A i \in 1..Len(file_patents) :
                  transaction.patentdata[i][3] =
                      NumberOfDigits(file_patents[i][APPLICATION_NUMBER])

\* ---------------------------------------------------------------------------
\* scripts/bulk_download.py: the pool, the queue, the fetch jobs and the
\* listener of a bulk download run
\* ---------------------------------------------------------------------------

\* the largest --n_jobs and the longest list of zip URLs that are explored
MaxJobs == 2
MaxLinks == 2

\* line 32
STOP_TOKEN == None

\* --n_jobs is any integer (lines 233-235); the values below zero that are
\* explored are the default -1 and one other
NJobs == -2..MaxJobs

\* lines 277-287: the zip URLs, each one standing for itself
ZipLinks == {[i \in 1..k |-> i] : k \in 0..MaxLinks}

\* line 289: multiprocessing.Pool(max([args.n_jobs, 0]) + 1)
PoolSize(n) == (IF n > 0 THEN n ELSE 0) + 1

\* class Message (lines 35-43)
Message(name, content) ==
    [name |-> name, content |-> content, is_failure |-> FALSE, msg |-> None]

\* the tasks handed to the pool (lines 293 and 302)
ListenerTask == [func |-> "listener", arg |-> 0]
FetchTask(i) == [func |-> "fetch_and_parse", arg |-> i]

\* What the body of the try of fetch_and_parse can come to (lines 197-203):
\* patents with or without parsing failures, or an exception raised by the
\* session, the download or the parser.
TryOutcomes ==
    { [exc |-> "", patents |-> <<"patent">>, n_fails |-> 0],
      [exc |-> "", patents |-> <<>>, n_fails |-> 1],
      [exc |-> "Exception", patents |-> <<>>, n_fails |-> 0] }

NotCalled == [pc |-> "not called", outcome |-> None]

DownloadInit ==
    /\ n_jobs \in NJobs
    /\ zip_links \in ZipLinks
    /\ pool = [w \in 1..PoolSize(n_jobs) |-> None]
    /\ pool_tasks = <<>>
    /\ queue = <<>>
    /\ jobs = [i \in 1..Len(zip_links) |-> NotCalled]
    /\ main_pc = [at |-> "listener", i |-> 0]
    /\ listener_pc = "not called"
    /\ received = <<>>

NotDownload == <<earlierVars, tagVars, sgmlVars, ctorVars, textVars, numberVars, dateVars, storeVars, fetchVars, apsVars, proxyVars>>

\* the position of the main process when a loop over zip_links goes on from
\* its i-th turn: the next turn, or line 308 when the list is exhausted
LoopFrom(at, i) ==
    IF i > Len(zip_links) THEN [at |-> "put", i |-> 0] ELSE [at |-> at, i |-> i]

\* line 293: pool.apply_async(listener, (output_path, queue)), and the
\* branch of line 297
ApplyAsyncListener ==
    /\ main_pc.at = "listener"
    /\ pool_tasks' = Append(pool_tasks, ListenerTask)
    /\ main_pc' = LoopFrom(IF n_jobs = -1 THEN "serial" ELSE "apply_async", 1)
    /\ UNCHANGED <<n_jobs, zip_links, pool, queue, jobs, listener_pc, received, NotDownload>>

\* line 298: the main process calls fetch_and_parse itself
SerialCall ==
    /\ main_pc.at = "serial"
    /\ jobs[main_pc.i].pc = "not called"
    /\ jobs' = [jobs EXCEPT ![main_pc.i].pc = "try"]
    /\ UNCHANGED <<n_jobs, zip_links, pool, pool_tasks, queue, main_pc, listener_pc, received, NotDownload>>

\* line 298: the call has returned and the comprehension goes on
SerialReturn ==
    /\ main_pc.at = "serial"
    /\ jobs[main_pc.i].pc = "return"
    /\ main_pc' = LoopFrom("serial", main_pc.i + 1)
    /\ UNCHANGED <<n_jobs, zip_links, pool, pool_tasks, queue, jobs, listener_pc, received, NotDownload>>

\* lines 301-303: job = pool.apply_async(fetch_and_parse, ...); the loop of
\* line 305 follows the last of them
ApplyAsyncJob ==
    /\ main_pc.at = "apply_async"
    /\ pool_tasks' = Append(pool_tasks, FetchTask(main_pc.i))
    /\ jobs' = [jobs EXCEPT ![main_pc.i].pc = "submitted"]
    /\ main_pc' = IF main_pc.i = Len(zip_links) THEN [at |-> "job_get", i |-> 1]
                  ELSE [at |-> "apply_async", i |-> main_pc.i + 1]
    /\ UNCHANGED <<n_jobs, zip_links, pool, queue, listener_pc, received, NotDownload>>

\* the mutation of AsyncResultReady: get() that does not wait for its job
AsyncResultReadyAtOnce(i) == TRUE

\* line 306: job.get() returns once its job has returned
AsyncResultReady(i) == jobs[i].pc = "return"

\* lines 305-306
JobGet ==
    /\ main_pc.at = "job_get"
    /\ AsyncResultReady(main_pc.i)
    /\ main_pc' = LoopFrom("job_get", main_pc.i + 1)
    /\ UNCHANGED <<n_jobs, zip_links, pool, pool_tasks, queue, jobs, listener_pc, received, NotDownload>>

\* line 308: queue.put(None)
PutStopToken ==
    /\ main_pc.at = "put"
    /\ queue' = Append(queue, STOP_TOKEN)
    /\ main_pc' = [at |-> "close", i |-> 0]
    /\ UNCHANGED <<n_jobs, zip_links, pool, pool_tasks, jobs, listener_pc, received, NotDownload>>

\* lines 309-310: pool.close() and pool.join(), which returns when every
\* worker has run out of tasks
PoolCloseJoin ==
    /\ main_pc.at = "close"
    /\ pool_tasks = <<>>
    /\ \A w \in DOMAIN pool : pool[w] = None
    /\ main_pc' = [at |-> "exit", i |-> 0]
    /\ UNCHANGED <<n_jobs, zip_links, pool, pool_tasks, queue, jobs, listener_pc, received, NotDownload>>

\* a worker of the pool that has no task takes the oldest submitted one and
\* calls it
WorkerTakesTask(w) ==
    /\ pool[w] = None
    /\ pool_tasks # <<>>
    /\ LET task == Head(pool_tasks)
       IN /\ pool' = [pool EXCEPT ![w] = Some(task)]
          /\ IF task.func = "listener"
             THEN listener_pc' = "get" /\ jobs' = jobs
             ELSE /\ jobs' = [jobs EXCEPT ![task.arg].pc = "try"]
                  /\ listener_pc' = listener_pc
    /\ pool_tasks' = Tail(pool_tasks)
    /\ UNCHANGED <<n_jobs, zip_links, queue, main_pc, received, NotDownload>>

\* the worker that ran the task is free again
Released(task) == [w \in DOMAIN pool |-> IF pool[w] = Some(task) THEN None ELSE pool[w]]

\* fetch_and_parse, lines 197-203 and 205-208: the body of the try up to its
\* put, or up to the exception and the failure message made of it
TryBody(i) ==
    /\ jobs[i].pc = "try"
    /\ \E o \in TryOutcomes :
         jobs' = [jobs EXCEPT ![i] = [pc |-> IF o.exc = "" THEN "put result" ELSE "put message",
                                      outcome |-> Some(o)]]
    /\ UNCHANGED <<n_jobs, zip_links, pool, pool_tasks, queue, main_pc, listener_pc, received, NotDownload>>

\* lines 201-203: result = Message(zip_url, patents), with its msg
ResultMessage(i) ==
    LET o == jobs[i].outcome[1]
    IN [Message(zip_links[i], o.patents) EXCEPT
            !.msg = IF o.n_fails # 0 THEN Some(<<o.n_fails, "parsing failures">>) ELSE None]

\* lines 207-208
FailureMessage(i) ==
    [Message(zip_links[i], jobs[i].outcome[1].exc) EXCEPT !.is_failure = TRUE]

\* line 204: queue.put(result), and the return
PutResult(i) ==
    /\ jobs[i].pc = "put result"
    /\ queue' = Append(queue, Some(ResultMessage(i)))
    /\ jobs' = [jobs EXCEPT ![i].pc = "return"]
    /\ pool' = Released(FetchTask(i))
    /\ UNCHANGED <<n_jobs, zip_links, pool_tasks, main_pc, listener_pc, received, NotDownload>>

\* line 209: queue.put(message), and the return
PutMessage(i) ==
    /\ jobs[i].pc = "put message"
    /\ queue' = Append(queue, Some(FailureMessage(i)))
    /\ jobs' = [jobs EXCEPT ![i].pc = "return"]
    /\ pool' = Released(FetchTask(i))
    /\ UNCHANGED <<n_jobs, zip_links, pool_tasks, main_pc, listener_pc, received, NotDownload>>

\* listener, lines 85-147: one turn of the loop, from the blocking get to the
\* break at the stop token or to the end of the handling of the message
ListenerGet ==
    /\ listener_pc = "get"
    /\ queue # <<>>
    /\ LET content == Head(queue)
       IN /\ received' = Append(received, content)
          /\ IF content = STOP_TOKEN
             THEN listener_pc' = "return" /\ pool' = Released(ListenerTask)
             ELSE listener_pc' = "get" /\ pool' = pool
    /\ queue' = Tail(queue)
    /\ UNCHANGED <<n_jobs, zip_links, pool_tasks, jobs, main_pc, NotDownload>>

MainNext ==
    \/ ApplyAsyncListener
    \/ SerialCall
    \/ SerialReturn
    \/ ApplyAsyncJob
    \/ JobGet
    \/ PutStopToken
    \/ PoolCloseJoin

WorkerNext == \E w \in DOMAIN pool : WorkerTakesTask(w)

FetchAndParseNext == \E i \in DOMAIN jobs : TryBody(i) \/ PutResult(i) \/ PutMessage(i)

DownloadNext == MainNext \/ WorkerNext \/ FetchAndParseNext \/ ListenerGet

InitDownload == DownloadInit /\ EarlierIdle /\ TagIdle /\ SgmlIdle /\ CtorIdle /\ TextIdle /\ NumberIdle /\ DateIdle /\ StoreIdle /\ FetchIdle /\ ApsIdle /\ ProxyIdle

SpecDownload == InitDownload /\ [][DownloadNext]_vars

\* The main process, the workers of the pool and the listener are processes
\* of the operating system: each of them goes on whenever it can.
SpecDownloadFair ==
    /\ SpecDownload
    /\ WF_vars(MainNext)
    /\ WF_vars(WorkerNext)
    /\ WF_vars(FetchAndParseNext)
    /\ WF_vars(ListenerGet)

\* C26: the bulk download run terminates for every --n_jobs and every list
\* of zip URLs: every fetch job completes, the stop token is put after all
\* of them, the listener receives it and exits, and the main process gets
\* past pool.join().
C26_RunTerminates ==
    <>(/\ main_pc.at = "exit"
       /\ listener_pc = "return"
       /\ \A i \in DOMAIN jobs : jobs[i].pc = "return")

\* the messages of the queue and of the listener, oldest first
Put == received \o queue

MessagesFor(url) == {k \in DOMAIN Put : Put[k] # STOP_TOKEN /\ Put[k][1].name = url}

\* the one message of a call that has returned tells what its try came to
TellsOutcome(m, o) ==
    IF o.exc = "" THEN ~m.is_failure /\ m.content = o.patents
    ELSE m.is_failure /\ m.content = o.exc

OneMessagePerCall ==
    \A i \in DOMAIN jobs :
        IF jobs[i].pc = "return"
        THEN /\ Cardinality(MessagesFor(zip_links[i])) = 1
             /\ \A k \in MessagesFor(zip_links[i]) : TellsOutcome(Put[k][1], jobs[i].outcome[1])
        ELSE MessagesFor(zip_links[i]) = {}

StopTokenTaken == \E k \in DOMAIN received : received[k] = STOP_TOKEN

TakenBeforeStopToken ==
    StopTokenTaken =>
        /\ \A i \in DOMAIN jobs : jobs[i].pc = "return"
        /\ \A i \in DOMAIN jobs : MessagesFor(zip_links[i]) \subseteq 1..(Len(received) - 1)
        /\ received[Len(received)] = STOP_TOKEN

\* C27: every call of fetch_and_parse puts exactly one Message for its URL,
\* a success message with the patents or a failure message with the
\* exception, and the listener has taken every message of the fetch jobs
\* when it takes the stop token.
C27_OneMessageTakenBeforeStop == OneMessagePerCall /\ TakenBeforeStopToken

\* two fetch jobs ran in the pool, one failed and one succeeded, and the
\* listener took both messages and then the stop token
C27_Witness ==
    /\ n_jobs >= 1
    /\ listener_pc = "return"
    /\ Len(received) = 3
    /\ \E k \in 1..2 : received[k][1].is_failure /\ ~received[3 - k][1].is_failure

\* ---------------------------------------------------------------------------
\* The chunks of chunk_aps_file handed to parse_aps_chunk
\* ---------------------------------------------------------------------------

\* get_patents_from_zip, lines 129-135, for the chunks of one legacy member:
\* the number of ParseErrors counted, and the exception that ends the loop
RECURSIVE CountFailures(_, _)
CountFailures(cs, n) ==
    IF cs = <<>> THEN [exc |-> "", n_failures |-> n]
    ELSE LET outcome == Parse("aps", Head(cs))
         IN IF outcome.exc = "" THEN CountFailures(Tail(cs), n)
            ELSE IF IsParseError(outcome.exc) THEN CountFailures(Tail(cs), n + 1)
            ELSE [exc |-> outcome.exc, n_failures |-> n]

\* C28: every chunk yielded by chunk_aps_file begins with the PATN header
\* line, parse_aps_chunk raises no ParseError on it, and the failure count
\* of get_patents_from_zip over the chunks of a legacy member is zero.
C28_ChunkBeginsWithHeader ==
    /\ \A k \in DOMAIN chunks :
         /\ chunks[k] # <<>>
         /\ chunks[k][1] = PATN
         /\ ~IsParseError(parse_aps_chunk(chunks[k]).exc)
    /\ CountFailures(chunks, 0).n_failures = 0

\* a file whose second line is a field line that no header precedes, and a
\* chunk made of the header and a field line
C28_Witness ==
    /\ chunk_pc = "done"
    /\ Len(aps.lines) >= 2 /\ aps.lines[2] = <<"W", "K", "U", " ", " ", "1">>
    /\ \E k \in DOMAIN chunks : Len(chunks[k]) >= 2

\* ---------------------------------------------------------------------------
\* The frame of a continuation line in parse_aps_into_namespaces
\* ---------------------------------------------------------------------------

\* The most recently created Tag of the document: the last Tag of the last
\* namespace that holds one, as <<place of the namespace, place in its data>>;
\* None when no Tag has been created.
MostRecentTag(nss) ==
    LET holding == {n \in DOMAIN nss : nss[n].data # <<>>}
    IN IF holding = {} THEN None
       ELSE LET n == CHOOSE m \in holding : \A o \in holding : o <= m
            IN <<n, Len(nss[n].data)>>

\* the loop is about to read a line of the given kind
Reading(Kind(_)) ==
    ns_pc = "loop" /\ line_i < Len(lines) /\ Kind(lines[line_i + 1])

\* the name_spaces after the step are those before it, but for the data of
\* the Tag at ref, which has the payload appended
OnlyTagExtended(ref, payload) ==
    /\ Len(name_spaces') = Len(name_spaces)
    /\ \A n \in DOMAIN name_spaces :
         /\ name_spaces'[n].name = name_spaces[n].name
         /\ Len(name_spaces'[n].data) = Len(name_spaces[n].data)
         /\ \A t \in DOMAIN name_spaces[n].data :
              IF <<n, t>> = ref
              THEN /\ name_spaces'[n].data[t].key = name_spaces[n].data[t].key
                   /\ name_spaces'[n].data[t].data = name_spaces[n].data[t].data \o payload
              ELSE name_spaces'[n].data[t] = name_spaces[n].data[t]

\* C29: a continuation line changes only the data of the most recently
\* created Tag of the document and leaves every other Tag and the list of
\* namespaces as they were; a namespace header does not reset the reference
\* to that Tag, so a continuation line directly after a header appends to
\* the last Tag made before the header and the new namespace stays empty.
C29_ContinuationFrame ==
    [][/\ (Reading(IsContinuation) /\ MostRecentTag(name_spaces) # None) =>
            /\ ns_pc' = "loop"
            /\ OnlyTagExtended(MostRecentTag(name_spaces), TagData(lines[line_i + 1]))
            /\ previous_tag' = previous_tag
            /\ current_namespace' = current_namespace
            /\ (line_i >= 1 /\ IsHeader(lines[line_i])) =>
                   /\ name_spaces'[Len(name_spaces')].data = <<>>
                   /\ MostRecentTag(name_spaces)[1] < Len(name_spaces)
       /\ Reading(IsHeader) =>
            /\ previous_tag' = previous_tag
            /\ MostRecentTag(name_spaces') = MostRecentTag(name_spaces)
            /\ previous_tag = MostRecentTag(name_spaces)
      ]_vars

\* a continuation line directly after the second header of a document has
\* been read: the Tag of the first namespace holds its payload and the
\* second namespace is empty
C29_Witness ==
    /\ ns_pc = "loop" /\ line_i >= 3
    /\ IsContinuation(lines[line_i]) /\ IsHeader(lines[line_i - 1])
    /\ Len(name_spaces) = 2
    /\ name_spaces[2].data = <<>>
    /\ name_spaces[1].data[1].data = TagData(lines[2]) \o TagData(lines[line_i])

\* ---------------------------------------------------------------------------
\* fetch/proxy.py: ProxySession.get
\* ---------------------------------------------------------------------------

\* line 15: self.max_tries = 3
max_tries == 3

\* the URLs asked for and the proxies that www.us-proxy.org lists first
GetUrls == {"a.zip", "b.zip"}
ProxyAddresses == {"1.1.1.1:80", "2.2.2.2:80"}

\* What requests.Session.get comes to (line 21): a response, whatever its
\* status, a ProxyError, or another exception of requests.
SessionGetOutcomes ==
    { [exc |-> "", status |-> 200],
      [exc |-> "", status |-> 404],
      [exc |-> "ProxyError", status |-> 0],
      [exc |-> "ConnectTimeout", status |-> 0] }

\* What fetch_proxies comes to (lines 40-60): the proxies of the first row
\* of the level, or the exception of raise_for_status() (line 42) or of
\* next() on a page without table or row (lines 44 and 52).
FetchProxiesOutcomes ==
    [exc : {""}, address : ProxyAddresses]
        \cup [exc : {"HTTPError", "StopIteration"}, address : {""}]

ProxyInit ==
    /\ get_url \in GetUrls
    /\ proxies \in ProxyAddresses
    /\ attempts = <<>>
    /\ refreshes = 0
    /\ get_response = None
    /\ get_pc = "try"

NotProxy == <<earlierVars, tagVars, sgmlVars, ctorVars, textVars, numberVars, dateVars, storeVars, fetchVars, apsVars, downloadVars>>

\* lines 19-22: the next turn of the loop calls requests.Session.get; a
\* response is returned, a ProxyError is caught, any other exception leaves
\* the method
SessionGet ==
    /\ get_pc = "try"
    /\ Len(attempts) < max_tries
    /\ \E o \in SessionGetOutcomes :
         /\ attempts' = Append(attempts, [exc |-> o.exc, status |-> o.status, proxies |-> proxies])
         /\ IF o.exc = ""
            THEN /\ get_response' = Some([url |-> get_url, status |-> o.status, proxies |-> proxies])
                 /\ get_pc' = "returned"
            ELSE /\ get_response' = get_response
                 /\ get_pc' = IF o.exc = "ProxyError" THEN "except" ELSE o.exc
    /\ UNCHANGED <<get_url, proxies, refreshes, NotProxy>>

\* lines 23-24: self.proxies = self.fetch_proxies(); an exception of
\* fetch_proxies leaves the handler and the method
FetchProxies ==
    /\ get_pc = "except"
    /\ \E o \in FetchProxiesOutcomes :
         IF o.exc = ""
         THEN proxies' = o.address /\ refreshes' = refreshes + 1 /\ get_pc' = "try"
         ELSE proxies' = proxies /\ refreshes' = refreshes /\ get_pc' = o.exc
    /\ UNCHANGED <<get_url, attempts, get_response, NotProxy>>

\* line 19: range(self.max_tries) is exhausted and the method returns None
ReturnNone ==
    /\ get_pc = "try"
    /\ Len(attempts) = max_tries
    /\ get_response' = None
    /\ get_pc' = "returned"
    /\ UNCHANGED <<get_url, proxies, attempts, refreshes, NotProxy>>

ProxyNext == SessionGet \/ FetchProxies \/ ReturnNone

InitProxy == ProxyInit /\ EarlierIdle /\ TagIdle /\ SgmlIdle /\ CtorIdle /\ TextIdle /\ NumberIdle /\ DateIdle /\ StoreIdle /\ FetchIdle /\ ApsIdle /\ DownloadIdle

SpecProxy == InitProxy /\ [][ProxyNext]_vars

\* the call of get has ended, by a return or by an exception
GetEnded == get_pc \notin {"idle", "try", "except"}

ProxyErrors == {k \in DOMAIN attempts : attempts[k].exc = "ProxyError"}

\* C30: get makes at most max_tries attempts; it returns the response of the
\* first attempt that does not raise ProxyError, has fetched a new proxy
\* after every attempt that raised ProxyError, and after max_tries
\* ProxyErrors in a row returns None without raising, the proxy having been
\* refreshed max_tries times.
C30_AtMostMaxTries ==
    /\ Len(attempts) <= max_tries
    /\ GetEnded =>
         /\ get_pc = "returned"
         /\ refreshes = Cardinality(ProxyErrors)
         /\ IF ProxyErrors = DOMAIN attempts
            THEN Len(attempts) = max_tries /\ get_response = None
            ELSE LET last == attempts[Len(attempts)]
                 IN /\ ProxyErrors = 1..(Len(attempts) - 1)
                    /\ get_response = Some([url |-> get_url, status |-> last.status,
                                            proxies |-> last.proxies])

=============================================================================
